---- MODULE Spec2Model ----
(***************************************************************************)
(* RebuildRadar: the #include reverse-dependency graph, its rebuild        *)
(* closure query, its cache-backed incremental build, and the analysis     *)
(* command that drives them.                                               *)
(*                                                                         *)
(* A path is a sequence of tokens: name tokens, extension tokens and the   *)
(* separator tokens "/" and "\\".  A string operation of the code is the    *)
(* same operation on the token sequence.                                   *)
(***************************************************************************)
EXTENDS Integers, Sequences, FiniteSets, TLC

VARIABLES
    graph,      \* the DependencyGraph object
    changedArg, \* argument of the last getAffectedFiles call
    result,     \* Set returned by the last getAffectedFiles call
    queried,    \* TRUE once getAffectedFiles has been called
    fs,         \* the workspace on disk: file -> [exists, mtime, content, io]
    clock,      \* number of changes made to the workspace so far
    store,      \* the persisted GraphCache (globalState)
    opts,       \* the ScanOptions handed to build
    origin,     \* how the graph object got its state: "new", "loaded", "built"
    graphDelta, \* the workspace changes since the build the graph's state reflects
    storeDelta, \* the workspace changes since the build the stored cache reflects
    lastBuild,  \* what the last build call reported, and the state it started from
    builds,     \* number of build calls made on the graph object
    analysisRunning, \* the module-level flag of analyzeCommits.ts
    pc,         \* request -> the await at which its runAnalysis call stands
    run,        \* request -> the locals of its call: analyzer graph, options, commits
    phaseLog,   \* request -> the phases its analysis has begun and ended, in order
    outcome,    \* how the last accepted call left runAnalysisInner, "none" until it does
    loading,    \* ImpactTreeDataProvider.loading
    report,     \* ImpactTreeDataProvider.report
    scan,       \* what the last directory scan of a build read and discovered
    moduleResolver, \* the ModuleResolver object: modules and fileToModule
    call        \* the arguments and the result of the last call made on its own

queryVars == <<changedArg, result, queried>>
graphVars == <<fs, clock, store, opts, origin, graphDelta, storeDelta, lastBuild, builds>>
scanVars == <<scan, moduleResolver, call>>
runVars == <<analysisRunning, pc, run, phaseLog, outcome, loading, report>>
vars == <<graph, changedArg, result, queried, fs, clock, store, opts, origin,
          graphDelta, storeDelta, lastBuild, builds,
          analysisRunning, pc, run, phaseLog, outcome, loading, report, scan,
          moduleResolver, call>>

----------------------------------------------------------------------------
(* Bounds *)

\* largest number of reverse-dependency edges of a graph drawn by QInit
MaxEdges == 4
\* longest changedFiles list handed to getAffectedFiles
MaxChanged == 2
\* largest number of changes made to the workspace in one behaviour
MaxFsChanges == 1
\* largest number of build calls on one graph object (each warm build lengthens
\* the filename index, so the calls are counted)
MaxBuilds == 2
\* largest number of incoming commits that getCommitsAhead returns
MaxCommits == 2

----------------------------------------------------------------------------
(* Strings and paths *)

Last(s) == s[Len(s)]

RECURSIVE SeqOf(_)
\* the elements of a finite set in some fixed order (iteration over a JS Set
\* whose insertion order the model does not track)
SeqOf(S) == IF S = {} THEN <<>>
            ELSE LET x == CHOOSE y \in S : TRUE IN <<x>> \o SeqOf(S \ {x})

Range(s) == {s[i] : i \in DOMAIN s}

\* String.prototype.toLowerCase, token by token
toLowerCase(tok) ==
    CASE tok = ".HPP" -> ".hpp"
      [] tok = ".H"   -> ".h"
      [] tok = "C"    -> "c"
      [] tok = ".SLN" -> ".sln"
      [] OTHER        -> tok

\* p.replace(/\\/g, '/')
norm(p) == [i \in DOMAIN p |-> IF p[i] = "\\" THEN "/" ELSE p[i]]

ExtTokens == {".cpp", ".h", ".hpp", ".HPP", ".H", ".inc", ".sln", ".SLN", ".vcxproj", ".txt"}

\* path.extname: the extension of the last path component, '' when it has none
extname(p) ==
    IF Len(p) >= 2 /\ Last(p) \in ExtTokens /\ p[Len(p) - 1] \notin {"/", "\\"}
    THEN Last(p) ELSE ""

CPP_EXTENSIONS == {".cpp", ".h", ".hpp", ".cc", ".cxx", ".hxx", ".c", ".hh", ".inl", ".ipp"}

isHeader_caseSensitive(filePath) ==
    extname(filePath) \in {".h", ".hpp", ".hxx", ".hh", ".inl", ".ipp"}

HEADER_EXTENSIONS == {".h", ".hpp", ".hxx", ".hh", ".inl", ".ipp"}

isHeader(filePath) == toLowerCase(extname(filePath)) \in HEADER_EXTENSIONS

----------------------------------------------------------------------------
(* The paths of the query model *)

cH   == <<"inc", "/", "c", ".h">>
bHPP == <<"src", "/", "b", ".HPP">>
aCpp == <<"src", "/", "a", ".cpp">>
dCpp == <<"src", "/", "d", ".cpp">>

QNodes == {cH, bHPP, aCpp, dCpp}

\* what a caller may pass: graph paths, also written with backslashes
QInputs == {cH, bHPP, dCpp, <<"src", "\\", "b", ".HPP">>, <<"src", "\\", "d", ".cpp">>}

----------------------------------------------------------------------------
(* DependencyGraph *)

NoScope == [set |-> FALSE, files |-> {}]
Scope(P) == [set |-> TRUE, files |-> P]

\* Map.get with a default for a missing key
Get(m, k, default) == IF k \in DOMAIN m THEN m[k] ELSE default

EmptyMap == [k \in {} |-> {}]

\* new DependencyGraph(rootPath)
NewGraph ==
    [reverseDeps  |-> EmptyMap,
     allFiles     |-> <<>>,
     fileIndex    |-> EmptyMap,
     built        |-> FALSE,
     extraExcludes |-> {},
     projectScope |-> NoScope,
     fileMtimes   |-> EmptyMap,
     fileIncludes |-> EmptyMap]

RECURSIVE seedQueue(_, _, _)
\* first loop of getAffectedFiles: <<affected, queue>> after the inputs
seedQueue(changedFiles, affected, queue) ==
    IF changedFiles = <<>> THEN <<affected, queue>>
    ELSE LET n == norm(Head(changedFiles))
         IN seedQueue(Tail(changedFiles), affected \cup {n},
                      IF isHeader(n) THEN Append(queue, n) ELSE queue)

RECURSIVE visitDeps(_, _, _)
\* the for-loop over deps of one dequeued path: <<affected, queue>> after it
visitDeps(deps, affected, queue) ==
    IF deps = <<>> THEN <<affected, queue>>
    ELSE LET dep == Head(deps)
         IN IF dep \notin affected
            THEN visitDeps(Tail(deps), affected \cup {dep},
                           IF isHeader(dep) THEN Append(queue, dep) ELSE queue)
            ELSE visitDeps(Tail(deps), affected, queue)

RECURSIVE bfs(_, _, _)
\* the while-loop of getAffectedFiles
bfs(reverseDeps, affected, queue) ==
    IF queue = <<>> THEN affected
    ELSE LET current == Head(queue)
         IN IF current \notin DOMAIN reverseDeps
            THEN bfs(reverseDeps, affected, Tail(queue))
            ELSE LET s == visitDeps(SeqOf(reverseDeps[current]), affected, Tail(queue))
                 IN bfs(reverseDeps, s[1], s[2])

\* the closure before the project-scope filter
closure(g, changedFiles) ==
    LET s == seedQueue(changedFiles, {}, <<>>)
    IN bfs(g.reverseDeps, s[1], s[2])

MaxLoop == 12

unvisited_always(dep, affected) == TRUE

\* if (!affected.has(dep))
unvisited(dep, affected) == dep \notin affected

\* affected.add(p), with the order in which the Set received its members
setAdd(w, p) ==
    [w EXCEPT !.affected = @ \cup {p},
              !.added = IF p \in w.affected THEN @ ELSE Append(@, p)]

\* queue.push(p) when p is a header
pushHeader(w, p) == IF isHeader(p) THEN [w EXCEPT !.queue = Append(@, p)] ELSE w

RECURSIVE seedLoop(_, _)
\* first loop of getAffectedFiles, on the locals w
seedLoop(changedFiles, w) ==
    IF changedFiles = <<>> THEN w
    ELSE seedLoop(Tail(changedFiles),
                  pushHeader(setAdd(w, norm(Head(changedFiles))), norm(Head(changedFiles))))

RECURSIVE depsLoop(_, _)
\* the for-loop over the dependents of the dequeued path, on the locals w
depsLoop(deps, w) ==
    IF deps = <<>> THEN w
    ELSE IF unvisited(Head(deps), w.affected)
         THEN depsLoop(Tail(deps), pushHeader(setAdd(w, Head(deps)), Head(deps)))
         ELSE depsLoop(Tail(deps), w)

RECURSIVE whileLoop(_, _)
\* the while-loop of getAffectedFiles, cut off after MaxLoop iterations
whileLoop(reverseDeps, w) ==
    IF w.queue = <<>> THEN [w EXCEPT !.returned = TRUE]
    ELSE IF w.iterations = MaxLoop THEN w
    ELSE LET current == Head(w.queue)
             shifted == [w EXCEPT !.queue = Tail(@), !.iterations = @ + 1]
         IN whileLoop(reverseDeps,
                      depsLoop(SeqOf(Get(reverseDeps, current, {})), shifted))

\* the locals of getAffectedFiles when its BFS ends or is cut off
walk(g, changedFiles) ==
    whileLoop(g.reverseDeps,
              seedLoop(changedFiles,
                       [affected |-> {}, added |-> <<>>, queue |-> <<>>,
                        iterations |-> 0, returned |-> FALSE]))

\* getDependentCount(filePath)
getDependentCount(g, filePath) == Cardinality(Get(g.reverseDeps, norm(filePath), {}))

getAffectedFiles_noScopeFilter(g, changedFiles) == closure(g, changedFiles)

getAffectedFiles_oneLevel(g, changedFiles) ==
    LET s == seedQueue(changedFiles, {}, <<>>)
    IN s[1] \cup UNION {Get(g.reverseDeps, h, {}) : h \in Range(s[2])}

getAffectedFiles_seedAll(g, changedFiles) ==
    bfs(g.reverseDeps, {norm(f) : f \in Range(changedFiles)},
        [i \in DOMAIN changedFiles |-> norm(changedFiles[i])])

getAffectedFiles(g, changedFiles) ==
    LET affected == closure(g, changedFiles)
    IN IF g.projectScope.set
       THEN {f \in affected : f \in g.projectScope.files}
       ELSE affected

----------------------------------------------------------------------------
(* Ordered sets (a JS Set iterates in insertion order) and maps *)

Has(seq, x) == x \in Range(seq)

SetAdd(seq, x) == IF Has(seq, x) THEN seq ELSE Append(seq, x)

SetDelete(seq, x) == SelectSeq(seq, LAMBDA y : y # x)

MapSet(m, k, v) == [x \in DOMAIN m \cup {k} |-> IF x = k THEN v ELSE m[x]]

MapDelete(m, k) == [x \in DOMAIN m \ {k} |-> m[x]]

----------------------------------------------------------------------------
(* The workspace on disk.  Paths are relative to the workspace root, which  *)
(* is the empty path; path.join(rootPath, p) and path.relative(rootPath, p) *)
(* are then p itself.                                                      *)

bH == <<"src", "/", "b", ".h">>

\* a file whose extension is none of CPP_EXTENSIONS
aInc == <<"src", "/", "a", ".inc">>

\* what readdir lists, in the order it lists it: directories, the C++ files
\* that come and go, and the other file, which is always there
AllEntries ==
    << [path |-> <<"inc">>, kind |-> "dir"],
       [path |-> <<"src">>, kind |-> "dir"],
       [path |-> cH,   kind |-> "file"],
       [path |-> aCpp, kind |-> "file"],
       [path |-> aInc, kind |-> "other"],
       [path |-> bH,   kind |-> "file"] >>

FileUniverse == {e.path : e \in {x \in Range(AllEntries) : x.kind = "file"}}

Dirs == {<<>>} \cup {e.path : e \in {x \in Range(AllEntries) : x.kind = "dir"}}

OtherFiles == {e.path : e \in {x \in Range(AllEntries) : x.kind = "other"}}

\* the quoted targets a file's text may hold, as written
IncB    == <<"b", ".h">>
IncA    == <<"a", ".inc">>
IncIncC == <<"inc", "/", "c", ".h">>
IncLibC == <<"lib", "/", "c", ".h">>

\* the texts each file may have: the sequence of its #include "..." targets
Contents(f) ==
    CASE f = aCpp -> {<<>>, <<IncB>>, <<IncLibC>>, <<IncA>>}
      [] f = bH   -> {<<>>, <<IncIncC>>}
      [] OTHER    -> {<<>>}

\* the files that some initial workspace lacks
InitiallyAbsent == {bH}

Absent == [exists |-> FALSE, mtime |-> 0, content |-> <<>>, io |-> "ok"]

\* index of the last "/" of p, 0 when it has none
LastSep(p) ==
    LET I == {i \in DOMAIN p : p[i] = "/"}
    IN IF I = {} THEN 0 ELSE CHOOSE i \in I : \A j \in I : j <= i

\* path.dirname of a relative path ('' standing for the root)
dirname(p) == SubSeq(p, 1, LastSep(p) - 1)

\* path.basename
basename(p) == SubSeq(p, LastSep(p) + 1, Len(p))

lowerAll(p) == [i \in DOMAIN p |-> toLowerCase(p[i])]

\* path.join of a directory and a relative path without '.' or '..' parts
join(dir, rel) == IF dir = <<>> THEN rel ELSE dir \o <<"/">> \o rel

\* String.prototype.endsWith
endsWith(p, suffix) ==
    /\ Len(suffix) <= Len(p)
    /\ SubSeq(p, Len(p) - Len(suffix) + 1, Len(p)) = suffix

isFile(fsys, p) == p \in DOMAIN fsys /\ fsys[p].exists

\* fs.existsSync
existsSync(fsys, p) == isFile(fsys, p) \/ p \in Dirs \/ p \in OtherFiles

\* fs.promises.stat succeeds
statOk(fsys, p) == isFile(fsys, p) /\ fsys[p].io # "nostat"

\* fs.promises.readFile succeeds
readOk(fsys, p) == isFile(fsys, p) /\ fsys[p].io = "ok"

\* A directory has an entry in the workspace only when an operation on it
\* fails: "norealpath" makes realpath fail, "noreaddir" makes readdir fail.
DirFailure(io) == [exists |-> FALSE, mtime |-> 0, content |-> <<>>, io |-> io]

\* fs.promises.realpath(dir) succeeds
realpathOk(fsys, dir) == ~(dir \in DOMAIN fsys /\ fsys[dir].io = "norealpath")

\* fs.promises.readdir(dir) succeeds
readdirOk(fsys, dir) == ~(dir \in DOMAIN fsys /\ fsys[dir].io = "noreaddir")

\* fs.promises.readdir(dir, {withFileTypes: true})
readdir(fsys, dir) ==
    SelectSeq(AllEntries,
              LAMBDA e : /\ e.path # <<>>
                         /\ dirname(e.path) = dir
                         /\ (e.kind \in {"dir", "other"} \/ isFile(fsys, e.path)))

----------------------------------------------------------------------------
(* DependencyGraph: scan *)

SCAN_SKIP_DIRS ==
    {"node_modules", ".git", "Binaries", "Intermediate", "DerivedDataCache",
     "Saved", ".vs", ".vscode", "__pycache__", "Debug", "Release", "x64",
     "x86", ".idea", "cmake-build-debug", "cmake-build-release", "build",
     "out", "dist"}

\* name.startsWith('.'): the directory names of the model that begin with a dot
DotNames == {".git", ".vs", ".vscode", ".idea", ".cache"}

shouldSkip(g, dirFullPath, name) ==
    \/ name \in SCAN_SKIP_DIRS
    \/ name \in DotNames
    \/ norm(dirFullPath) \in g.extraExcludes
    \/ \E ex \in g.extraExcludes :
          /\ Len(ex) + 1 <= Len(dirFullPath)
          /\ SubSeq(norm(dirFullPath), 1, Len(ex) + 1) = ex \o <<"/">>

SCAN_DIR_CAP == 500000

\* push one listed file onto the discovered set and the filename index
addFile(sc, fullPath) ==
    LET rel == norm(fullPath)
        key == lowerAll(basename(fullPath))
    IN [sc EXCEPT !.allFiles = SetAdd(@, rel),
                  !.fileIndex = MapSet(@, key, Append(Get(@, key, <<>>), rel))]

RECURSIVE scanEntries(_, _, _, _)
\* the for-loop over the entries of one directory: sc is [allFiles, fileIndex, dirQueue]
scanEntries(g, entries, sc, dir) ==
    IF entries = <<>> THEN sc
    ELSE LET entry == Head(entries)
             name == basename(entry.path)
         IN IF entry.kind \in {"dir", "symlink"}
            THEN IF shouldSkip(g, entry.path, name[1])
                 THEN scanEntries(g, Tail(entries), sc, dir)
                 ELSE scanEntries(g, Tail(entries),
                                  [sc EXCEPT !.dirQueue = Append(@, entry.path)], dir)
            ELSE IF toLowerCase(extname(name)) \in CPP_EXTENSIONS
                 THEN scanEntries(g, Tail(entries), addFile(sc, entry.path), dir)
                 ELSE scanEntries(g, Tail(entries), sc, dir)

\* fs.promises.realpath: the model has no symlink, a directory is its own real path
realpath(dir) == dir

RECURSIVE scanLoop(_, _, _, _, _)
\* the while-loop of scanDirectory
scanLoop(g, fsys, sc, visited, dirCount) ==
    IF sc.dirQueue = <<>> THEN sc
    ELSE LET dir == Head(sc.dirQueue)
             rest == [sc EXCEPT !.dirQueue = Tail(@)]
         IN IF dir \notin Dirs \/ ~realpathOk(fsys, dir) \/ realpath(dir) \in visited
            THEN scanLoop(g, fsys, rest, visited, dirCount)
            ELSE IF dirCount + 1 > SCAN_DIR_CAP
                 THEN rest
                 ELSE IF ~readdirOk(fsys, dir)
                 THEN scanLoop(g, fsys, rest, visited \cup {realpath(dir)}, dirCount + 1)
                 ELSE scanLoop(g, fsys, scanEntries(g, readdir(fsys, dir), rest, dir),
                               visited \cup {realpath(dir)}, dirCount + 1)

\* scanDirectory(startDir): <<discovered files, fileIndex>> after the scan
scanDirectory(g, fsys, discovered, fileIndex, startDir) ==
    LET sc == scanLoop(g, fsys,
                       [allFiles |-> discovered, fileIndex |-> fileIndex,
                        dirQueue |-> <<startDir>>], {}, 0)
    IN <<sc.allFiles, sc.fileIndex>>

RECURSIVE scanRoots(_, _, _, _, _)
\* the loop of build over includePaths
scanRoots(g, fsys, discovered, fileIndex, roots) ==
    IF roots = <<>> THEN <<discovered, fileIndex>>
    ELSE LET s == scanDirectory(g, fsys, discovered, fileIndex, norm(Head(roots)))
         IN scanRoots(g, fsys, s[1], s[2], Tail(roots))

----------------------------------------------------------------------------
(* DependencyGraph: include parsing *)

RECURSIVE firstSuffixMatch(_, _)
\* the first candidate that ends with the include string, <<>> when none does
firstSuffixMatch(candidates, normalizedInclude) ==
    IF candidates = <<>> THEN <<>>
    ELSE IF endsWith(Head(candidates), normalizedInclude) THEN Head(candidates)
    ELSE firstSuffixMatch(Tail(candidates), normalizedInclude)

\* resolveInclude: the resolved path, <<>> standing for null
resolveInclude(g, fsys, includePath, fromDir) ==
    LET relToFile == join(fromDir, includePath)
        relToRoot == includePath
        candidates == Get(g.fileIndex, lowerAll(basename(includePath)), <<>>)
        bySuffix == firstSuffixMatch(candidates, norm(includePath))
    IN IF existsSync(fsys, relToFile) THEN norm(relToFile)
       ELSE IF existsSync(fsys, relToRoot) THEN norm(relToRoot)
       ELSE IF Len(candidates) > 0 /\ bySuffix # <<>> THEN bySuffix
       ELSE IF Len(candidates) = 1 THEN candidates[1]
       ELSE <<>>

RECURSIVE parseMatches(_, _, _, _, _)
\* the regex loop of parseIncludes: <<reverseDeps, resolvedIncludes>> after it
parseMatches(g, fsys, relPath, targets, acc) ==
    IF targets = <<>> THEN acc
    ELSE LET resolved == resolveInclude(g, fsys, Head(targets), dirname(relPath))
         IN IF resolved # <<>>
            THEN parseMatches(g, fsys, relPath, Tail(targets),
                    << MapSet(acc[1], resolved, Get(acc[1], resolved, {}) \cup {relPath}),
                       Append(acc[2], resolved) >>)
            ELSE parseMatches(g, fsys, relPath, Tail(targets), acc)

parseIncludes(g, fsys, relPath) ==
    IF ~(statOk(fsys, relPath) /\ readOk(fsys, relPath)) THEN g
    ELSE LET r == parseMatches(g, fsys, relPath, fsys[relPath].content,
                               <<g.reverseDeps, <<>>>>)
         IN [g EXCEPT !.reverseDeps = r[1],
                      !.fileMtimes = MapSet(@, relPath, fsys[relPath].mtime),
                      !.fileIncludes = MapSet(@, relPath, r[2])]

----------------------------------------------------------------------------
(* DependencyGraph: cache *)

RootPath == "/ws"

NoCache == [present |-> FALSE, rootPath |-> "", files |-> <<>>]

RECURSIVE loadEntries(_, _)
\* the loop of loadCache over Object.entries(cache.files)
loadEntries(g, entries) ==
    IF entries = <<>> THEN g
    ELSE LET e == Head(entries)
             key == lowerAll(basename(e.path))
             addEdge(rd, inc) == MapSet(rd, inc, Get(rd, inc, {}) \cup {e.path})
             RECURSIVE addEdges(_, _)
             addEdges(rd, incs) ==
                 IF incs = <<>> THEN rd ELSE addEdges(addEdge(rd, Head(incs)), Tail(incs))
         IN loadEntries(
               [g EXCEPT !.allFiles = SetAdd(@, e.path),
                         !.fileMtimes = MapSet(@, e.path, e.mtime),
                         !.fileIncludes = MapSet(@, e.path, e.includes),
                         !.fileIndex = MapSet(@, key, Append(Get(@, key, <<>>), e.path)),
                         !.reverseDeps = addEdges(@, e.includes)],
               Tail(entries))

loadCache_noIndex(g, cache) ==
    [loadEntries([g EXCEPT !.reverseDeps = EmptyMap, !.allFiles = <<>>,
                           !.fileIndex = EmptyMap, !.fileMtimes = EmptyMap,
                           !.fileIncludes = EmptyMap],
                 cache.files)
     EXCEPT !.built = TRUE, !.fileIndex = EmptyMap]

loadCache(g, cache) ==
    [loadEntries([g EXCEPT !.reverseDeps = EmptyMap, !.allFiles = <<>>,
                           !.fileIndex = EmptyMap, !.fileMtimes = EmptyMap,
                           !.fileIncludes = EmptyMap],
                 cache.files)
     EXCEPT !.built = TRUE]

toCache(g) ==
    [present  |-> TRUE,
     rootPath |-> RootPath,
     files    |-> [i \in DOMAIN g.allFiles |->
                     [path     |-> g.allFiles[i],
                      mtime    |-> Get(g.fileMtimes, g.allFiles[i], 0),
                      includes |-> Get(g.fileIncludes, g.allFiles[i], <<>>)]]]

----------------------------------------------------------------------------
(* DependencyGraph: build *)

DefaultOptions == [includePaths |-> <<>>, excludePaths |-> <<>>, projectScope |-> NoScope]

RECURSIVE addNewFiles(_, _, _)
\* <<allFiles, newFiles>> after the loop over the discovered files
addNewFiles(discovered, allFiles, newFiles) ==
    IF discovered = <<>> THEN <<allFiles, newFiles>>
    ELSE LET f == Head(discovered)
         IN IF ~Has(allFiles, f)
            THEN addNewFiles(Tail(discovered), Append(allFiles, f), Append(newFiles, f))
            ELSE addNewFiles(Tail(discovered), allFiles, newFiles)

RECURSIVE dropRemoved(_, _)
\* the removal of the files that are no longer discovered, edges included
dropRemoved(g, removedFiles) ==
    IF removedFiles = <<>> THEN g
    ELSE LET f == Head(removedFiles)
             rd == MapDelete(g.reverseDeps, f)
         IN dropRemoved(
               [g EXCEPT !.allFiles = SetDelete(@, f),
                         !.fileMtimes = MapDelete(@, f),
                         !.fileIncludes = MapDelete(@, f),
                         !.reverseDeps = [k \in DOMAIN rd |-> rd[k] \ {f}]],
               Tail(removedFiles))

RECURSIVE mtimeDiff(_, _, _, _, _)
\* the mtime check of a warm build: <<allFiles, filesToParse>> after it
mtimeDiff(g, fsys, discovered, newFiles, acc) ==
    IF discovered = <<>> THEN acc
    ELSE LET relPath == Head(discovered)
             rest == Tail(discovered)
         IN IF Has(newFiles, relPath) THEN mtimeDiff(g, fsys, rest, newFiles, acc)
            ELSE IF relPath \notin DOMAIN g.fileMtimes
                 THEN mtimeDiff(g, fsys, rest, newFiles, <<acc[1], Append(acc[2], relPath)>>)
            ELSE IF ~statOk(fsys, relPath)
                 THEN mtimeDiff(g, fsys, rest, newFiles, <<SetDelete(acc[1], relPath), acc[2]>>)
            ELSE IF fsys[relPath].mtime # g.fileMtimes[relPath]
                 THEN mtimeDiff(g, fsys, rest, newFiles, <<acc[1], Append(acc[2], relPath)>>)
            ELSE mtimeDiff(g, fsys, rest, newFiles, acc)

RECURSIVE clearOldEdges(_, _, _)
clearOldEdges(rd, oldIncludes, relPath) ==
    IF oldIncludes = <<>> THEN rd
    ELSE LET inc == Head(oldIncludes)
         IN clearOldEdges(IF inc \in DOMAIN rd THEN MapSet(rd, inc, rd[inc] \ {relPath}) ELSE rd,
                          Tail(oldIncludes), relPath)

RECURSIVE parseAll(_, _, _)
\* phase 3 of build: the loop over filesToParse
parseAll(g, fsys, filesToParse) ==
    IF filesToParse = <<>> THEN g
    ELSE LET relPath == Head(filesToParse)
             cleared == [g EXCEPT !.reverseDeps =
                            clearOldEdges(@, Get(g.fileIncludes, relPath, <<>>), relPath)]
         IN parseAll(parseIncludes(cleared, fsys, relPath), fsys, Tail(filesToParse))

\* a graph that went through loadCache or an earlier build and holds files
hadCache(g) == g.built /\ Len(g.allFiles) > 0

\* build, before the scan: the excludes and the scope are refreshed, and the
\* collections are cleared unless the build is incremental
prepare(g, options) ==
    IF hadCache(g)
    THEN [g EXCEPT !.extraExcludes = {norm(p) : p \in Range(options.excludePaths)},
                   !.projectScope = options.projectScope]
    ELSE [g EXCEPT !.extraExcludes = {norm(p) : p \in Range(options.excludePaths)},
                   !.projectScope = options.projectScope,
                   !.reverseDeps = EmptyMap, !.allFiles = <<>>,
                   !.fileIndex = EmptyMap, !.fileMtimes = EmptyMap,
                   !.fileIncludes = EmptyMap]

\* phase 1 of build: <<discoveredFiles, fileIndex>> after the directory scan
scanPhase(g, fsys, options) ==
    IF Len(options.includePaths) > 0
    THEN scanRoots(g, fsys, <<>>, g.fileIndex, options.includePaths)
    ELSE scanDirectory(g, fsys, <<>>, g.fileIndex, <<>>)

\* the previous files that the scan did not discover
removedOf(previousFiles, discoveredFiles) ==
    SelectSeq(previousFiles, LAMBDA f : ~Has(discoveredFiles, f))

\* phase 3 of build and its result: the graph and what the build reports
parsePhase(hc, g3, fsys, discoveredFiles, newFiles, removedFiles, diff) ==
    [graph        |-> [parseAll([g3 EXCEPT !.allFiles = diff[1]], fsys, diff[2])
                         EXCEPT !.built = TRUE],
     hadCache     |-> hc,
     discovered   |-> discoveredFiles,
     newFiles     |-> newFiles,
     removedFiles |-> removedFiles,
     filesToParse |-> diff[2]]

\* phase 2 of build: the files to parse, all of them in a full build
diffPhase(hc, g3, fsys, discoveredFiles, newFiles, removedFiles) ==
    parsePhase(hc, g3, fsys, discoveredFiles, newFiles, removedFiles,
               IF hc
               THEN mtimeDiff(g3, fsys, discoveredFiles, newFiles, <<g3.allFiles, newFiles>>)
               ELSE <<g3.allFiles, g3.allFiles>>)

\* build, after the scan: the new files are merged in, the removed ones dropped
mergePhase(hc, g2, fsys, discoveredFiles, fileIndex, merged, removedFiles) ==
    diffPhase(hc,
              dropRemoved([g2 EXCEPT !.allFiles = merged[1], !.fileIndex = fileIndex],
                          removedFiles),
              fsys, discoveredFiles, merged[2], removedFiles)

afterScan(hc, g2, fsys, scanned) ==
    mergePhase(hc, g2, fsys, scanned[1], scanned[2],
               addNewFiles(scanned[1], g2.allFiles, <<>>),
               removedOf(g2.allFiles, scanned[1]))

afterPrepare(hc, g2, fsys, options) ==
    afterScan(hc, g2, fsys, scanPhase(g2, fsys, options))

\* build(onProgress, options): the graph after it and what the build reports
build(g0, fsys, options) ==
    afterPrepare(hadCache(g0), prepare(g0, options), fsys, options)

----------------------------------------------------------------------------
(* DependencyGraph: the scan of a tree with symbolic links, skipped and      *)
(* excluded directories, with what each scanDirectory call reads            *)

MaxScanLoop == 24
MaxRoots == 2

Ent(name, kind, target) == [name |-> name, kind |-> kind, target |-> target]

\* real directory -> its directory entries, in readdir order.  src/up links
\* back to the workspace root, src/dead links to a directory that is gone.
ScanTree ==
    (<<>> :> << Ent(<<"src">>, "dir", <<>>), Ent(<<"build">>, "dir", <<>>),
                Ent(<<"ext">>, "dir", <<>>), Ent(<<".git">>, "dir", <<>>) >>)
    @@ (<<"src">> :> << Ent(<<"a", ".cpp">>, "file", <<>>), Ent(<<"sub">>, "dir", <<>>),
                        Ent(<<"up">>, "symlink", <<>>),
                        Ent(<<"dead">>, "symlink", <<"gone">>) >>)
    @@ (<<"src", "/", "sub">> :> << Ent(<<"e", ".h">>, "file", <<>>) >>)
    @@ (<<"build">> :> << Ent(<<"g", ".cpp">>, "file", <<>>) >>)
    @@ (<<"ext">> :> << Ent(<<"x", ".h">>, "file", <<>>) >>)
    @@ (<<".git">> :> << Ent(<<"h", ".h">>, "file", <<>>) >>)

NoPath == [ok |-> FALSE, path |-> <<>>]

RECURSIVE resolveFrom(_, _)
\* the real path of real directory cur followed by the path tokens rest
resolveFrom(cur, rest) ==
    IF rest = <<>> THEN [ok |-> TRUE, path |-> cur]
    ELSE IF Head(rest) = "/" THEN resolveFrom(cur, Tail(rest))
    ELSE LET es == {e \in Range(Get(ScanTree, cur, <<>>)) : e.name = <<Head(rest)>>}
         IN IF es = {} THEN NoPath
            ELSE LET e == CHOOSE x \in es : TRUE
                 IN IF e.kind = "dir" THEN resolveFrom(join(cur, e.name), Tail(rest))
                    ELSE IF e.kind = "symlink" /\ e.target \in DOMAIN ScanTree
                         THEN resolveFrom(e.target, Tail(rest))
                    ELSE NoPath

\* fs.promises.realpath(dir) in ScanTree
treeRealpath(dir) == resolveFrom(<<>>, dir)

\* fs.promises.readdir(dir, {withFileTypes: true}) in ScanTree, each entry
\* with the path.join(dir, entry.name) the loop makes of it
treeReaddir(dir) ==
    LET real == treeRealpath(dir).path
    IN [i \in DOMAIN ScanTree[real] |->
          [path |-> join(dir, ScanTree[real][i].name), kind |-> ScanTree[real][i].kind]]

RECURSIVE treeScanLoop(_, _)
\* the while-loop of scanDirectory on its locals sc, cut off after MaxScanLoop
\* iterations; sc.reads lists the real directories handed to readdir
treeScanLoop(g, sc) ==
    IF sc.dirQueue = <<>> THEN sc
    ELSE IF sc.iterations = MaxScanLoop THEN [sc EXCEPT !.returned = FALSE]
    ELSE LET dir == Head(sc.dirQueue)
             realDir == treeRealpath(dir)
             rest == [sc EXCEPT !.dirQueue = Tail(@), !.iterations = @ + 1]
         IN IF ~realDir.ok \/ realDir.path \in sc.visited
            THEN treeScanLoop(g, rest)
            ELSE IF sc.dirCount + 1 > SCAN_DIR_CAP
                 THEN rest
                 ELSE treeScanLoop(g,
                         scanEntries(g, treeReaddir(dir),
                                     [rest EXCEPT !.visited = @ \cup {realDir.path},
                                                  !.dirCount = @ + 1,
                                                  !.reads = Append(@, realDir.path)],
                                     dir))

\* scanDirectory(startDir): visited, dirQueue and dirCount are new at each call
treeScanDirectory(g, sc, startDir) ==
    treeScanLoop(g, [sc EXCEPT !.dirQueue = <<startDir>>, !.visited = {},
                               !.dirCount = 0, !.iterations = 0])

RECURSIVE treeScanRoots(_, _, _)
\* the loop of build over includePaths
treeScanRoots(g, sc, roots) ==
    IF roots = <<>> \/ ~sc.returned THEN sc
    ELSE treeScanRoots(g, treeScanDirectory(g, sc, norm(Head(roots))), Tail(roots))

\* build, phase 1, on a new graph: the scan of includePaths, of the root without any
treeScan(options) ==
    LET g == prepare(NewGraph, options)
        sc == [allFiles |-> <<>>, fileIndex |-> EmptyMap, dirQueue |-> <<>>,
               visited |-> {}, dirCount |-> 0, iterations |-> 0,
               reads |-> <<>>, returned |-> TRUE]
    IN IF Len(options.includePaths) > 0
       THEN treeScanRoots(g, sc, options.includePaths)
       ELSE treeScanDirectory(g, sc, <<>>)

----------------------------------------------------------------------------
(* The analysis command: its requests and their state *)

\* the callers of runAnalysis: the two commands and the startup timer
Requests == {"analyze", "refresh", "autoScan"}

\* options.silent of the call
silent(r) == r = "autoScan"

NoReport == [present |-> FALSE, commits |-> 0, allRebuildFiles |-> {}]

\* new ModuleResolver(rootPath): no module, no file mapped
NoModules == [modules |-> <<>>, fileToModule |-> EmptyMap]

\* the locals of a call that is not analysing
IdleRun == [depGraph |-> NewGraph, options |-> DefaultOptions,
            rawCommits |-> <<>>, commitImpacts |-> 0, allRebuildFiles |-> {},
            moduleResolver |-> NoModules, trackedFiles |-> 0]

\* no build has scanned yet
NoScan == [done |-> FALSE]

\* no call has been made yet
NoCall == [op |-> "none"]

\* the extension after activation, before any request
NoAnalysis ==
    /\ scan = NoScan
    /\ moduleResolver = NoModules
    /\ call = NoCall
    /\ analysisRunning = FALSE
    /\ pc = [r \in Requests |-> "idle"]
    /\ run = [r \in Requests |-> IdleRun]
    /\ phaseLog = [r \in Requests |-> <<>>]
    /\ outcome = "none"
    /\ loading = FALSE
    /\ report = NoReport

----------------------------------------------------------------------------
(* GraphSpec: the graph object, the cache store and a changing workspace *)

NoBuild == [done |-> FALSE, from |-> "new", delta |-> {}, hadCache |-> FALSE,
            filesToParse |-> <<>>, unchanged |-> FALSE]

\* a cold build of the workspace as it is now
ColdGraph(fsys, options) == build(NewGraph, fsys, options).graph

GInit ==
    /\ graph = NewGraph
    /\ changedArg = <<>>
    /\ result = {}
    /\ queried = FALSE
    /\ fs \in [FileUniverse -> {Absent} \cup
                  UNION {{[exists |-> TRUE, mtime |-> 1, content |-> c, io |-> "ok"]
                          : c \in Contents(f)} : f \in FileUniverse}]
    /\ \A f \in FileUniverse :
          IF fs[f].exists THEN fs[f].content \in Contents(f) ELSE f \in InitiallyAbsent
    /\ clock = 0
    /\ store = NoCache
    /\ opts = DefaultOptions
    /\ origin = "new"
    /\ graphDelta = {}
    /\ storeDelta = {}
    /\ lastBuild = NoBuild
    /\ builds = 0
    /\ NoAnalysis

\* new ChangeAnalyzer(...): every analysis starts from a fresh graph object
Construct ==
    /\ origin # "new"
    /\ graph' = NewGraph
    /\ origin' = "new"
    /\ graphDelta' = {}
    /\ builds' = 0
    /\ UNCHANGED <<fs, clock, store, opts, storeDelta, lastBuild, queryVars, runVars, scanVars>>

cacheManagerLoad_anyRoot(st, rootPath) == st

\* GraphCacheManager.load: the stored cache, unless there is none or its root differs
cacheManagerLoad(st, rootPath) ==
    IF ~st.present \/ st.rootPath # rootPath THEN NoCache ELSE st

\* analyze, step 2: warm-start from the cache
LoadCache ==
    /\ origin = "new"
    /\ cacheManagerLoad(store, RootPath).present
    /\ graph' = loadCache(graph, cacheManagerLoad(store, RootPath))
    /\ origin' = "loaded"
    /\ graphDelta' = storeDelta
    /\ UNCHANGED <<fs, clock, store, opts, storeDelta, lastBuild, builds, queryVars, runVars, scanVars>>

\* the fields of the graph that its queries and its cache read
Core(g) == <<Range(g.allFiles), g.fileMtimes, g.fileIncludes,
             UNION {{<<k, d>> : d \in g.reverseDeps[k]} : k \in DOMAIN g.reverseDeps}>>

\* the graph and the record of the build, from what build returns
Built(b) ==
    /\ graph' = b.graph
    /\ lastBuild' = [done |-> TRUE,
                     from |-> origin,
                     delta |-> graphDelta,
                     hadCache |-> b.hadCache,
                     filesToParse |-> b.filesToParse,
                     unchanged |-> Core(b.graph) = Core(graph)]

\* analyze, step 2: depGraph.build(report, scanOptions)
Build ==
    /\ builds < MaxBuilds
    /\ builds' = builds + 1
    /\ Built(build(graph, fs, opts))
    /\ origin' = "built"
    /\ graphDelta' = {}
    /\ UNCHANGED <<fs, clock, store, opts, storeDelta, queryVars, runVars, scanVars>>

\* analyze, step 2: persist the updated cache
SaveCache ==
    /\ origin = "built"
    /\ store' = toCache(graph)
    /\ storeDelta' = graphDelta
    /\ <<store', storeDelta'>> # <<store, storeDelta>>
    /\ UNCHANGED <<graph, fs, clock, opts, origin, graphDelta, lastBuild, builds, queryVars, runVars, scanVars>>

Changed(f, kind, rec) ==
    /\ clock < MaxFsChanges
    /\ clock' = clock + 1
    /\ fs' = [fs EXCEPT ![f] = rec]
    /\ graphDelta' = graphDelta \cup {<<f, kind>>}
    /\ storeDelta' = storeDelta \cup {<<f, kind>>}
    /\ UNCHANGED <<graph, store, opts, origin, lastBuild, builds, queryVars, runVars, scanVars>>

\* a file is created
FsAdd(f, c) ==
    /\ ~fs[f].exists
    /\ Changed(f, "add", [exists |-> TRUE, mtime |-> clock + 2, content |-> c, io |-> "ok"])

\* a file is deleted
FsRemove(f) ==
    /\ fs[f].exists
    /\ Changed(f, "remove", Absent)

\* a file's text is rewritten
FsWrite(f, c) ==
    /\ fs[f].exists
    /\ c # fs[f].content
    /\ Changed(f, "write", [fs[f] EXCEPT !.mtime = clock + 2, !.content = c])

\* a file's mtime alone changes
FsTouch(f) ==
    /\ fs[f].exists
    /\ Changed(f, "touch", [fs[f] EXCEPT !.mtime = clock + 2])

\* a file's permissions change: "noread" lets stat succeed and readFile fail,
\* "nostat" makes stat fail as well (the file is still listed by readdir)
FsChmod(f, io) ==
    /\ fs[f].exists
    /\ io # fs[f].io
    /\ Changed(f, "chmod", [fs[f] EXCEPT !.io = io])

GNext ==
    \/ Construct
    \/ LoadCache
    \/ Build
    \/ SaveCache
    \/ \E f \in FileUniverse : \E c \in Contents(f) : FsAdd(f, c)
    \/ \E f \in FileUniverse : FsRemove(f)
    \/ \E f \in FileUniverse : \E c \in Contents(f) : FsWrite(f, c)
    \/ \E f \in FileUniverse : FsTouch(f)
    \/ \E f \in FileUniverse : \E io \in {"ok", "noread", "nostat"} : FsChmod(f, io)

GraphSpec == GInit /\ [][GNext]_vars

----------------------------------------------------------------------------
(* CacheSpec: GraphSpec, with a second window that saves the cache of       *)
(* another workspace under the same globalState key                         *)

OtherRoot == "/other"

\* what the other window persists: a.cpp with the mtime it has here and an edge
\* to a file that this workspace lacks
OtherCache ==
    [present  |-> TRUE,
     rootPath |-> OtherRoot,
     files    |-> << [path |-> aCpp, mtime |-> 1, includes |-> <<dCpp>>],
                     [path |-> dCpp, mtime |-> 7, includes |-> <<>>] >>]

\* GraphCacheManager.save in the window of the other workspace
OtherWindowSave ==
    /\ store # OtherCache
    /\ store' = OtherCache
    /\ UNCHANGED <<graph, fs, clock, opts, origin, graphDelta, storeDelta, lastBuild, builds,
                   queryVars, runVars, scanVars>>

CNext == GNext \/ OtherWindowSave

CacheSpec == GInit /\ [][CNext]_vars

----------------------------------------------------------------------------
(* CheckoutSpec: GraphSpec, with a checkout that changes two files at once  *)

\* the working tree moves to a commit that adds one file and deletes another
Checkout(added, c, removed) ==
    /\ clock < MaxFsChanges
    /\ clock' = clock + 1
    /\ ~fs[added].exists
    /\ fs[removed].exists
    /\ fs' = [fs EXCEPT ![added] = [exists |-> TRUE, mtime |-> clock + 2,
                                     content |-> c, io |-> "ok"],
                        ![removed] = Absent]
    /\ graphDelta' = graphDelta \cup {<<added, "add">>, <<removed, "remove">>}
    /\ storeDelta' = storeDelta \cup {<<added, "add">>, <<removed, "remove">>}
    /\ UNCHANGED <<graph, store, opts, origin, lastBuild, builds, queryVars, runVars, scanVars>>

KNext ==
    \/ GNext
    \/ \E added, removed \in FileUniverse : \E c \in Contents(added) :
          Checkout(added, c, removed)

CheckoutSpec == GInit /\ [][KNext]_vars

----------------------------------------------------------------------------
(* FailureSpec: GraphSpec, with directories that cannot be canonicalized or *)
(* read                                                                     *)

\* realpath or readdir begins to fail on a directory
DirChmod(d, io) ==
    /\ clock < MaxFsChanges
    /\ clock' = clock + 1
    /\ d \notin DOMAIN fs
    /\ fs' = MapSet(fs, d, DirFailure(io))
    /\ graphDelta' = graphDelta \cup {<<d, "chmod">>}
    /\ storeDelta' = storeDelta \cup {<<d, "chmod">>}
    /\ UNCHANGED <<graph, store, opts, origin, lastBuild, builds, queryVars, runVars, scanVars>>

FNext ==
    \/ GNext
    \/ \E d \in Dirs : \E io \in {"norealpath", "noreaddir"} : DirChmod(d, io)

FailureSpec == GInit /\ [][FNext]_vars

----------------------------------------------------------------------------
(* QuerySpec: getAffectedFiles on every small reverse-dependency graph *)

QEdges == {e \in QNodes \X QNodes : e[1] # e[2]}

\* reverseDeps holding exactly the edges E (<<included, includer>>)
DepsOf(E) ==
    [k \in {e[1] : e \in E} |-> {e[2] : e \in {x \in E : x[1] = k}}]

QScopes == {NoScope, Scope({aCpp, bHPP}), Scope({})}

SeqsUpTo(S, n) == UNION {[1..k -> S] : k \in 0..n}

QInit ==
    /\ \E E \in SUBSET QEdges, sc \in QScopes :
          /\ Cardinality(E) <= MaxEdges
          /\ graph = [NewGraph EXCEPT !.reverseDeps = DepsOf(E),
                                      !.allFiles = SeqOf(QNodes),
                                      !.built = TRUE,
                                      !.projectScope = sc]
    /\ changedArg = <<>>
    /\ result = {}
    /\ queried = FALSE
    /\ fs = [f \in FileUniverse |-> Absent]
    /\ clock = 0
    /\ store = NoCache
    /\ opts = DefaultOptions
    /\ origin = "built"
    /\ graphDelta = {}
    /\ storeDelta = {}
    /\ lastBuild = NoBuild
    /\ builds = 0
    /\ NoAnalysis

\* One call per behaviour: the call leaves the graph as it is, so a second call
\* reaches no graph, argument and result that a first call does not reach.
Query(changedFiles) ==
    /\ ~queried
    /\ changedArg' = changedFiles
    /\ result' = getAffectedFiles(graph, changedFiles)
    /\ queried' = TRUE
    /\ UNCHANGED <<graph, graphVars, runVars, scanVars>>

QNext == \E c \in SeqsUpTo(QInputs, MaxChanged) : Query(c)

QuerySpec == QInit /\ [][QNext]_vars

----------------------------------------------------------------------------
(* ScanSpec: the directory scan of a build, for every include and exclude    *)
(* configuration over the directories of ScanTree                           *)

\* the directories a user may name in rebuildRadar.includePaths / excludePaths
ConfigDirs == {<<"src">>, <<"src", "/", "sub">>, <<"ext">>, <<"build">>}

SInit ==
    /\ graph = NewGraph
    /\ changedArg = <<>>
    /\ result = {}
    /\ queried = FALSE
    /\ fs = [f \in FileUniverse |-> Absent]
    /\ clock = 0
    /\ store = NoCache
    /\ \E inc \in SeqsUpTo(ConfigDirs, MaxRoots), exc \in SUBSET {<<"ext">>, <<"src", "/", "sub">>} :
          opts = [includePaths |-> inc, excludePaths |-> SeqOf(exc), projectScope |-> NoScope]
    /\ origin = "new"
    /\ graphDelta = {}
    /\ storeDelta = {}
    /\ lastBuild = NoBuild
    /\ builds = 0
    /\ NoAnalysis

\* depGraph.build(report, scanOptions) up to the end of its phase 1
ScanBuild ==
    /\ ~scan.done
    /\ scan' = [done     |-> TRUE,
                returned |-> treeScan(opts).returned,
                reads    |-> treeScan(opts).reads,
                files    |-> treeScan(opts).allFiles]
    /\ UNCHANGED <<graph, queryVars, graphVars, runVars, moduleResolver, call>>

SNext == ScanBuild

ScanSpec == SInit /\ [][SNext]_vars

----------------------------------------------------------------------------
(* RunSpec: runAnalysis requests, interleaved at their awaits *)

\* the workspace of the analysis: a.cpp includes b.h, which includes inc/c.h
RWorkspace ==
    [f \in FileUniverse |->
        [exists |-> TRUE, mtime |-> 1, io |-> "ok",
         content |-> IF f = aCpp THEN <<IncB>> ELSE IF f = bH THEN <<IncIncC>> ELSE <<>>]]

\* the build scope that a parsed project file gives
RProjectScope == {aCpp}

\* the incoming commits and the files git reports for each
RCommits == {"k1", "k2"}
readme == <<"README", ".md">>
getCommitFiles(hash) ==
    CASE hash = "k1" -> <<cH>>
      [] hash = "k3" -> <<bH, readme>>
      [] hash = "k4" -> <<bH, <<"src", "\\", "a", ".cpp">> >>
      [] OTHER       -> <<dCpp>>

alreadyRunning_never(flag) == FALSE

\* if (analysisRunning) { ... return; }
alreadyRunning(flag) == flag

\* the phase that an await of analyze belongs to
phaseOf(p) ==
    CASE p = "scope"   -> "scopeParse"
      [] p = "scan"    -> "directoryScan"
      [] p = "diff"    -> "mtimeDiff"
      [] p = "parse"   -> "includeParse"
      [] p = "save"    -> "cacheSave"
      [] p = "commits" -> "commitEnumeration"
      [] p = "modules" -> "moduleDetection"
      [] p = "query"   -> "closureQuery"

continuation_parseFirst(p) ==
    CASE p = "scope"   -> "parse"
      [] p = "parse"   -> "scan"
      [] p = "scan"    -> "diff"
      [] p = "diff"    -> "save"
      [] p = "save"    -> "commits"
      [] p = "commits" -> "modules"
      [] p = "modules" -> "query"
      [] p = "query"   -> "query"

\* the await that follows await p in the text of analyze and build
continuation(p) ==
    CASE p = "scope"   -> "scan"
      [] p = "scan"    -> "diff"
      [] p = "diff"    -> "parse"
      [] p = "parse"   -> "save"
      [] p = "save"    -> "commits"
      [] p = "commits" -> "modules"
      [] p = "modules" -> "query"
      [] p = "query"   -> "query"

begin(log, p) == Append(log, <<phaseOf(p), "begin">>)
end(log, p) == Append(log, <<phaseOf(p), "end">>)

\* analyze, step 2: the graph after the warm start, the new graph without a usable cache
warmStart(g, cached) == IF cached.present THEN loadCache(g, cached) ELSE g

\* the log after a call of cacheManager.load, and after one of cacheManager.save
loaded(log) == Append(log, <<"cacheStore", "load">>)
saved(log) == Append(log, <<"cacheStore", "save">>)

\* the log after the warm start
warmLog(log, cached) ==
    IF cached.present
    THEN loaded(log) \o << <<"warmLoad", "begin">>, <<"warmLoad", "end">> >>
    ELSE loaded(log)

\* DependencyGraph.totalFiles
totalFiles(g) ==
    IF g.projectScope.set THEN Cardinality(g.projectScope.files) ELSE Len(g.allFiles)

\* analyze, step 5: the rebuild files of one commit
rebuildFiles(g, changedPaths) ==
    IF totalFiles(g) > 0 THEN getAffectedFiles(g, changedPaths) ELSE Range(changedPaths)

RInit ==
    /\ graph = NewGraph
    /\ changedArg = <<>>
    /\ result = {}
    /\ queried = FALSE
    /\ fs = RWorkspace
    /\ clock = 0
    /\ store = NoCache
    /\ opts = DefaultOptions
    /\ origin = "new"
    /\ graphDelta = {}
    /\ storeDelta = {}
    /\ lastBuild = NoBuild
    /\ builds = 0
    /\ NoAnalysis

\* what a step of a request leaves alone
Elsewhere == UNCHANGED <<graph, queryVars, fs, clock, opts, origin, graphDelta, storeDelta,
                         lastBuild, builds, scanVars>>

\* leave runAnalysisInner: the next thing the call does is the finally block
Leave(r, how, ld) ==
    /\ pc' = [pc EXCEPT ![r] = "finally"]
    /\ outcome' = how
    /\ loading' = ld

Catch_skipsFinally(r) ==
    /\ pc' = [pc EXCEPT ![r] = "idle"]
    /\ outcome' = "error"
    /\ loading' = FALSE

Catch_keepsLoading(r) == Leave(r, "error", loading)

\* catch (error): clearLoading, then leave
Catch(r) == Leave(r, "error", FALSE)

\* runAnalysis up to its first await: the guard, and the flag set on acceptance
RunAnalysis(r) ==
    /\ pc[r] = "idle"
    /\ IF alreadyRunning(analysisRunning)
       THEN /\ pc' = [pc EXCEPT ![r] = "rejected"]
            /\ UNCHANGED <<analysisRunning, phaseLog>>
       ELSE /\ analysisRunning' = TRUE
            /\ pc' = [pc EXCEPT ![r] = "inner"]
            /\ phaseLog' = [phaseLog EXCEPT ![r] = <<>>]
    /\ outcome' = IF alreadyRunning(analysisRunning) THEN outcome ELSE "none"
    /\ UNCHANGED <<run, loading, report, store>>
    /\ Elsewhere

\* the promise of a rejected call resolves
Rejected(r) ==
    /\ pc[r] = "rejected"
    /\ pc' = [pc EXCEPT ![r] = "idle"]
    /\ UNCHANGED <<analysisRunning, run, phaseLog, outcome, loading, report, store>>
    /\ Elsewhere

\* runAnalysisInner up to the fetch: the workspace folder check
Inner(r) ==
    /\ pc[r] = "inner"
    /\ \E workspaceFolder \in BOOLEAN :
          IF ~workspaceFolder
          THEN Leave(r, "noWorkspace", loading)
          ELSE /\ pc' = [pc EXCEPT ![r] = "fetch"]
               /\ loading' = TRUE
               /\ UNCHANGED outcome
    /\ UNCHANGED <<analysisRunning, run, phaseLog, report, store>>
    /\ Elsewhere

\* gitService.fetch settles (a failure is logged and swallowed)
Fetch(r) ==
    /\ pc[r] = "fetch"
    /\ pc' = [pc EXCEPT ![r] = "tracking"]
    /\ loading' = TRUE
    /\ UNCHANGED <<analysisRunning, run, phaseLog, outcome, report, store>>
    /\ Elsewhere

\* new ChangeAnalyzer and analyze up to its first await: the project file
\* parse when one is configured, the scan of build otherwise
Analyze(r) ==
    /\ loading' = TRUE
    /\ \E projectFile \in BOOLEAN :
          IF projectFile
          THEN /\ pc' = [pc EXCEPT ![r] = "scope"]
               /\ run' = [run EXCEPT ![r] = IdleRun]
               /\ phaseLog' = [phaseLog EXCEPT ![r] = begin(<<>>, "scope")]
          ELSE /\ pc' = [pc EXCEPT ![r] = continuation("scope")]
               /\ run' = [run EXCEPT ![r] =
                            [IdleRun EXCEPT !.depGraph =
                                warmStart(NewGraph, cacheManagerLoad(store, RootPath))]]
               /\ phaseLog' = [phaseLog EXCEPT ![r] =
                                 begin(warmLog(<<>>, cacheManagerLoad(store, RootPath)),
                                       continuation("scope"))]
    /\ UNCHANGED <<analysisRunning, outcome, report, store>>

\* gitService.getTrackingBranch settles
Tracking(r) ==
    /\ pc[r] = "tracking"
    /\ \E trackingBranch \in BOOLEAN :
          IF trackingBranch
          THEN Analyze(r)
          ELSE /\ pc' = [pc EXCEPT ![r] = "remotes"]
               /\ UNCHANGED <<analysisRunning, run, phaseLog, outcome, loading, report, store>>
    /\ Elsewhere

\* gitService.getRemoteBranches settles
Remotes(r) ==
    /\ pc[r] = "remotes"
    /\ \E remoteBranches \in {0, 1} :
          IF remoteBranches = 0
          THEN /\ Leave(r, "noRemote", FALSE)
               /\ UNCHANGED <<analysisRunning, run, phaseLog, report, store>>
          ELSE IF silent(r)
               THEN Analyze(r)
               ELSE /\ pc' = [pc EXCEPT ![r] = "pick"]
                    /\ UNCHANGED <<analysisRunning, run, phaseLog, outcome, loading,
                                   report, store>>
    /\ Elsewhere

\* showQuickPick settles
Pick(r) ==
    /\ pc[r] = "pick"
    /\ \E picked \in BOOLEAN :
          IF picked
          THEN Analyze(r)
          ELSE /\ Leave(r, "cancelled", FALSE)
               /\ UNCHANGED <<analysisRunning, run, phaseLog, report, store>>
    /\ Elsewhere

\* the await at p settles and analyze runs on to the next one
Advance(r, p, log) ==
    /\ pc' = [pc EXCEPT ![r] = continuation(p)]
    /\ phaseLog' = [phaseLog EXCEPT ![r] = begin(end(log, p), continuation(p))]

\* parser.parseWithModules settles; then the warm start, and build up to its scan
ScopeParse(r) ==
    /\ pc[r] = "scope"
    /\ \E scoped \in BOOLEAN :
          run' = [run EXCEPT ![r].options =
                                IF scoped
                                THEN [@ EXCEPT !.projectScope = Scope(RProjectScope)]
                                ELSE @,
                             ![r].depGraph =
                                warmStart(@, cacheManagerLoad(store, RootPath))]
    /\ pc' = [pc EXCEPT ![r] = continuation("scope")]
    /\ phaseLog' = [phaseLog EXCEPT ![r] =
                      begin(warmLog(end(@, "scope"), cacheManagerLoad(store, RootPath)),
                            continuation("scope"))]
    /\ loading' = TRUE
    /\ UNCHANGED <<analysisRunning, outcome, report, store>>
    /\ Elsewhere

\* build, phase 1: the directory scan is done
Scan(r) ==
    /\ pc[r] = "scan"
    /\ Advance(r, "scan", phaseLog[r])
    /\ loading' = TRUE
    /\ UNCHANGED <<analysisRunning, run, outcome, report, store>>
    /\ Elsewhere

\* build, phase 2: the files to parse are determined
Diff(r) ==
    /\ pc[r] = "diff"
    /\ Advance(r, "diff", phaseLog[r])
    /\ loading' = TRUE
    /\ UNCHANGED <<analysisRunning, run, outcome, report, store>>
    /\ Elsewhere

\* build, phase 3: build throws, or the includes are parsed and build returns
Parse(r) ==
    /\ pc[r] = "parse"
    /\ \/ /\ Catch(r)
          /\ UNCHANGED <<run, phaseLog>>
       \/ /\ run' = [run EXCEPT ![r].depGraph = build(@, fs, run[r].options).graph]
          /\ Advance(r, "parse", phaseLog[r])
          /\ loading' = TRUE
          /\ UNCHANGED outcome
    /\ UNCHANGED <<analysisRunning, report, store>>
    /\ Elsewhere

Save_failureRaises(r) ==
    /\ pc[r] = "save"
    /\ \E ok \in BOOLEAN :
          IF ok
          THEN /\ store' = toCache(run[r].depGraph)
               /\ Advance(r, "save", saved(phaseLog[r]))
               /\ loading' = TRUE
               /\ UNCHANGED outcome
          ELSE /\ Catch(r)
               /\ UNCHANGED <<store, phaseLog>>
    /\ UNCHANGED <<analysisRunning, run, report>>
    /\ Elsewhere

\* cacheManager.save settles: the cache is persisted, or the failure is logged
Save(r) ==
    /\ pc[r] = "save"
    /\ \E ok \in BOOLEAN :
          store' = IF ok THEN toCache(run[r].depGraph) ELSE store
    /\ Advance(r, "save", saved(phaseLog[r]))
    /\ loading' = TRUE
    /\ UNCHANGED <<analysisRunning, run, outcome, report>>
    /\ Elsewhere

\* gitService.getCommitsAhead settles
Commits(r) ==
    /\ pc[r] = "commits"
    /\ \E rawCommits \in SeqsUpTo(RCommits, MaxCommits) :
          run' = [run EXCEPT ![r].rawCommits = rawCommits]
    /\ Advance(r, "commits", phaseLog[r])
    /\ loading' = TRUE
    /\ UNCHANGED <<analysisRunning, outcome, report, store>>
    /\ Elsewhere

\* moduleResolver.detect settles; the denominator is decided
Modules(r) ==
    /\ pc[r] = "modules"
    /\ IF run[r].rawCommits = <<>>
       THEN /\ pc' = [pc EXCEPT ![r] = "publish"]
            /\ phaseLog' = [phaseLog EXCEPT ![r] = end(@, "modules")]
       ELSE Advance(r, "modules", phaseLog[r])
    /\ loading' = TRUE
    /\ UNCHANGED <<analysisRunning, run, outcome, report, store>>
    /\ Elsewhere

\* analyze, step 5, for the next commit and the files git gave for it
Impact(r, files) ==
    /\ run' = [run EXCEPT
                 ![r].rawCommits = Tail(@),
                 ![r].commitImpacts = @ + 1,
                 ![r].allRebuildFiles = @ \cup rebuildFiles(run[r].depGraph, files)]
    /\ IF Tail(run[r].rawCommits) = <<>>
       THEN /\ pc' = [pc EXCEPT ![r] = "publish"]
            /\ phaseLog' = [phaseLog EXCEPT ![r] = end(@, "query")]
       ELSE Advance(r, "query", phaseLog[r])

\* gitService.getCommitFiles settles for the next commit, with no file when the
\* git command failed; the closure of its files is queried
QueryCommit(r) ==
    /\ pc[r] = "query"
    /\ \/ Impact(r, <<>>)
       \/ Impact(r, getCommitFiles(Head(run[r].rawCommits)))
    /\ loading' = TRUE
    /\ UNCHANGED <<analysisRunning, outcome, report, store>>
    /\ Elsewhere

\* analyze has returned: treeDataProvider.setReport
Publish(r) ==
    /\ pc[r] = "publish"
    /\ report' = [present |-> TRUE, commits |-> run[r].commitImpacts,
                  allRebuildFiles |-> run[r].allRebuildFiles]
    /\ Leave(r, "report", FALSE)
    /\ UNCHANGED <<analysisRunning, run, phaseLog, store>>
    /\ Elsewhere

\* finally { analysisRunning = false; }
Finally(r) ==
    /\ pc[r] = "finally"
    /\ analysisRunning' = FALSE
    /\ pc' = [pc EXCEPT ![r] = "idle"]
    /\ run' = [run EXCEPT ![r] = IdleRun]
    /\ phaseLog' = [phaseLog EXCEPT ![r] = <<>>]
    /\ UNCHANGED <<outcome, loading, report, store>>
    /\ Elsewhere

\* an await of the accepted call of r settles and the call runs on to its next await
Settle(r) ==
    \/ Inner(r)
    \/ Fetch(r)
    \/ Tracking(r)
    \/ Remotes(r)
    \/ Pick(r)
    \/ ScopeParse(r)
    \/ Scan(r)
    \/ Diff(r)
    \/ Parse(r)
    \/ Save(r)
    \/ Commits(r)
    \/ Modules(r)
    \/ QueryCommit(r)
    \/ Publish(r)
    \/ Finally(r)

RNext == \E r \in Requests : RunAnalysis(r) \/ Rejected(r) \/ Settle(r)

RunSpec == RInit /\ [][RNext]_vars

\* every await of an accepted call settles: git commands end, the quick pick is
\* answered or dismissed, and the event loop runs the continuation
FairRunSpec == RunSpec /\ WF_vars(\E r \in Requests : Settle(r))

----------------------------------------------------------------------------
(* ModuleResolver *)

RECURSIVE indexModules(_, _)
\* the loops of buildReverseIndex: a file is set only when the map lacks it
indexModules(modules, fileToModule) ==
    IF modules = <<>> THEN fileToModule
    ELSE indexModules(Tail(modules),
                      [f \in DOMAIN fileToModule \cup Head(modules).files |->
                          IF f \in DOMAIN fileToModule THEN fileToModule[f]
                          ELSE Head(modules).name])

buildReverseIndex_lastWins(modules) ==
    indexModules([i \in 1..Len(modules) |-> modules[Len(modules) + 1 - i]], EmptyMap)

\* buildReverseIndex: fileToModule after the clear and the loops
buildReverseIndex(modules) == indexModules(modules, EmptyMap)

\* the resolver after detect has registered modules
detected(modules) == [modules |-> modules, fileToModule |-> buildReverseIndex(modules)]

resolveFileModule_firstModule(resolver, filePath) ==
    IF resolver.modules = <<>> THEN "" ELSE resolver.modules[1].name

\* resolveFileModule: the module name, "" standing for null
resolveFileModule(resolver, filePath) == Get(resolver.fileToModule, norm(filePath), "")

\* index of the bucket of module mod, 0 when there is none
bucketOf(buckets, mod) ==
    IF \E i \in DOMAIN buckets : buckets[i].name = mod
    THEN CHOOSE i \in DOMAIN buckets : buckets[i].name = mod
    ELSE 0

RECURSIVE bucketLoop(_, _, _)
\* groupByModule: the loop that buckets the affected files by module
bucketLoop(resolver, affectedFiles, buckets) ==
    IF affectedFiles = <<>> THEN buckets
    ELSE LET f == Head(affectedFiles)
             mod == resolveFileModule(resolver, f)
         IN IF mod = ""
            THEN bucketLoop(resolver, Tail(affectedFiles), buckets)
            ELSE IF bucketOf(buckets, mod) = 0
                 THEN bucketLoop(resolver, Tail(affectedFiles),
                                 Append(buckets, [name |-> mod, files |-> <<f>>]))
                 ELSE bucketLoop(resolver, Tail(affectedFiles),
                                 [buckets EXCEPT ![bucketOf(buckets, mod)].files = Append(@, f)])

\* groupByModule: the ModuleImpact of one bucket
moduleImpact(resolver, bucket) ==
    LET desc == CHOOSE d \in Range(resolver.modules) : d.name = bucket.name
    IN [moduleName |-> bucket.name, modulePath |-> desc.path, moduleType |-> desc.type,
        totalFiles |-> Cardinality(desc.files),
        affectedFiles |-> Len(bucket.files), affectedFileList |-> bucket.files]

RECURSIVE insertImpact(_, _)
\* place x behind the impacts of sorted that have at least as many affected files
insertImpact(sorted, x) ==
    IF sorted = <<>> THEN <<x>>
    ELSE IF Head(sorted).affectedFiles >= x.affectedFiles
         THEN <<Head(sorted)>> \o insertImpact(Tail(sorted), x)
         ELSE <<x>> \o sorted

RECURSIVE sortImpacts(_, _)
\* impacts.sort((a, b) => b.affectedFiles - a.affectedFiles), a stable sort
sortImpacts(impacts, sorted) ==
    IF impacts = <<>> THEN sorted
    ELSE sortImpacts(Tail(impacts), insertImpact(sorted, Head(impacts)))

groupByModule_everyModule(resolver, affectedFiles) ==
    [i \in DOMAIN resolver.modules |->
        moduleImpact(resolver,
                     [name |-> resolver.modules[i].name,
                      files |-> SelectSeq(affectedFiles,
                                          LAMBDA f : resolveFileModule(resolver, f)
                                                        = resolver.modules[i].name)])]

groupByModule_firstFileOnly(resolver, affectedFiles) ==
    IF Len(resolver.modules) = 0 THEN <<>>
    ELSE LET buckets == bucketLoop(resolver, affectedFiles, <<>>)
         IN sortImpacts([i \in DOMAIN buckets |->
                            moduleImpact(resolver, [buckets[i] EXCEPT !.files = <<Head(@)>>])],
                        <<>>)

groupByModule_unsorted(resolver, affectedFiles) ==
    IF Len(resolver.modules) = 0 THEN <<>>
    ELSE LET buckets == bucketLoop(resolver, affectedFiles, <<>>)
         IN [i \in DOMAIN buckets |-> moduleImpact(resolver, buckets[i])]

\* groupByModule(affectedFiles)
groupByModule(resolver, affectedFiles) ==
    IF Len(resolver.modules) = 0 THEN <<>>
    ELSE LET buckets == bucketLoop(resolver, affectedFiles, <<>>)
         IN sortImpacts([i \in DOMAIN buckets |-> moduleImpact(resolver, buckets[i])], <<>>)

----------------------------------------------------------------------------
(* ModuleResolver.detect and its strategies.  What findFiles and            *)
(* collectCppFiles meet on disk is a record: dirs are the top-level          *)
(* directory names, cppFiles the C++ files, buildCs the *.Build.cs files as  *)
(* [name, dir] and cmake the CMakeLists.txt files as [dir, targets].         *)

Desc(name, dir, type, files) == [name |-> name, path |-> dir, type |-> type, files |-> files]

\* Map.has on the modules map
modulesHas(modules, name) == \E i \in DOMAIN modules : modules[i].name = name

\* Map.set on the modules map: a known key keeps its place
modulesSet(modules, desc) ==
    IF modulesHas(modules, desc.name)
    THEN [i \in DOMAIN modules |-> IF modules[i].name = desc.name THEN desc ELSE modules[i]]
    ELSE Append(modules, desc)

\* f lies in directory dir or below it
under(f, dir) ==
    \/ dir = <<>>
    \/ Len(f) > Len(dir) /\ SubSeq(f, 1, Len(dir) + 1) = dir \o <<"/">>

\* collectCppFiles(moduleDir)
collectCppFiles(disk, dir) == {f \in disk.cppFiles : under(f, dir)}

RECURSIVE detectBuildCs(_, _, _)
\* detectBuildCs: the loop over the Build.cs files found
detectBuildCs(modules, disk, found) ==
    IF found = <<>> THEN modules
    ELSE detectBuildCs(
            IF collectCppFiles(disk, Head(found).dir) # {}
            THEN modulesSet(modules, Desc(Head(found).name, Head(found).dir, "unreal",
                                          collectCppFiles(disk, Head(found).dir)))
            ELSE modules,
            disk, Tail(found))

\* targetName.startsWith('$') || targetName.startsWith('#'), for the names of the model
CMakeVariables == {"${PROJECT_NAME}", "#lib"}

RECURSIVE cmakeTargets(_, _, _, _)
\* detectCMake: the regex loop over the targets of one CMakeLists.txt
cmakeTargets(modules, disk, dir, targets) ==
    IF targets = <<>> THEN modules
    ELSE cmakeTargets(
            IF /\ Head(targets) \notin CMakeVariables
               /\ collectCppFiles(disk, dir) # {}
               /\ ~modulesHas(modules, Head(targets))
            THEN modulesSet(modules, Desc(Head(targets), dir, "cmake",
                                          collectCppFiles(disk, dir)))
            ELSE modules,
            disk, dir, Tail(targets))

RECURSIVE detectCMake(_, _, _)
\* detectCMake: the loop over the CMakeLists.txt files found
detectCMake(modules, disk, found) ==
    IF found = <<>> THEN modules
    ELSE detectCMake(cmakeTargets(modules, disk, Head(found).dir, Head(found).targets),
                     disk, Tail(found))

\* f.split('/').length
partCount(f) == Cardinality({i \in DOMAIN f : f[i] = "/"}) + 1

\* the first existing one of 'Source', 'src', 'Src', 'source', "" when none exists
sourceRootOf(disk) ==
    LET sourceRoots == <<"Source", "src", "Src", "source">>
        I == {i \in DOMAIN sourceRoots : sourceRoots[i] \in disk.dirs}
    IN IF I = {} THEN "" ELSE sourceRoots[CHOOSE i \in I : \A j \in I : i <= j]

\* detectDirectory: the bucket name of a file, "" for a root-level file
\* (a directory name is one token: parts[0] is f[1] and parts[1] is f[3])
bucketName(sourceRoot, f) ==
    IF sourceRoot # "" /\ toLowerCase(f[1]) = toLowerCase(sourceRoot) /\ partCount(f) > 2
    THEN f[3]
    ELSE IF partCount(f) > 1 THEN f[1] ELSE ""

\* detectDirectory: the path of the module of bucket files
bucketPath(sourceRoot, firstFile) ==
    IF sourceRoot # "" /\ toLowerCase(firstFile[1]) = toLowerCase(sourceRoot)
    THEN SubSeq(firstFile, 1, 3)
    ELSE SubSeq(firstFile, 1, 1)

RECURSIVE bucketNames(_, _, _)
\* detectDirectory: the keys of buckets, in the order the files create them
bucketNames(sourceRoot, allFiles, names) ==
    IF allFiles = <<>> THEN names
    ELSE bucketNames(sourceRoot, Tail(allFiles),
                     IF bucketName(sourceRoot, Head(allFiles)) = "" THEN names
                     ELSE SetAdd(names, bucketName(sourceRoot, Head(allFiles))))

RECURSIVE directoryModules(_, _, _, _)
\* detectDirectory: the loop over the buckets, those of fewer than 2 files skipped
directoryModules(modules, sourceRoot, allFiles, names) ==
    IF names = <<>> THEN modules
    ELSE LET files == SelectSeq(allFiles, LAMBDA f : bucketName(sourceRoot, f) = Head(names))
         IN directoryModules(
               IF Len(files) < 2 THEN modules
               ELSE modulesSet(modules, Desc(Head(names), bucketPath(sourceRoot, files[1]),
                                             "directory", Range(files))),
               sourceRoot, allFiles, Tail(names))

\* detectDirectory(allFiles)
detectDirectory(modules, disk, allFiles) ==
    IF Len(allFiles) = 0 THEN modules
    ELSE directoryModules(modules, sourceRootOf(disk), allFiles,
                          bucketNames(sourceRootOf(disk), allFiles, <<>>))

\* the switch of detect: one strategy runs on the modules map
runStrategy(modules, s, disk, allFiles) ==
    CASE s = "unreal"    -> detectBuildCs(modules, disk, disk.buildCs)
      [] s = "cmake"     -> detectCMake(modules, disk, disk.cmake)
      [] s = "directory" -> detectDirectory(modules, disk, allFiles)
      [] OTHER           -> modules

RECURSIVE strategyLoop_noBreak(_, _, _, _)
strategyLoop_noBreak(modules, strategies, disk, allFiles) ==
    IF strategies = <<>> THEN modules
    ELSE strategyLoop_noBreak(runStrategy(modules, Head(strategies), disk, allFiles),
                              Tail(strategies), disk, allFiles)

RECURSIVE strategyLoop(_, _, _, _)
\* detect: the loop over the strategies, left after the first that found a module
strategyLoop(modules, strategies, disk, allFiles) ==
    IF strategies = <<>> THEN modules
    ELSE IF Len(runStrategy(modules, Head(strategies), disk, allFiles)) > 0
         THEN runStrategy(modules, Head(strategies), disk, allFiles)
         ELSE strategyLoop(runStrategy(modules, Head(strategies), disk, allFiles),
                           Tail(strategies), disk, allFiles)

RECURSIVE adopt(_, _)
\* detect: for (const [name, mod] of prebuiltModules) this.modules.set(name, mod)
adopt(modules, prebuilt) ==
    IF prebuilt = <<>> THEN modules
    ELSE adopt(modulesSet(modules, Head(prebuilt)), Tail(prebuilt))

clear_keeps(resolver) == resolver

\* this.modules.clear(); this.fileToModule.clear()
clear(resolver) == NoModules

\* detect, after the maps are cleared
detectFrom(modules, strategy, prebuilt, allFiles, disk) ==
    IF strategy = "none" THEN [modules |-> modules, fileToModule |-> EmptyMap]
    ELSE IF Len(prebuilt) > 0 /\ strategy \in {"auto", "vcxproj"}
         THEN detected(adopt(modules, prebuilt))
         ELSE detected(strategyLoop(modules,
                                    IF strategy = "auto"
                                    THEN <<"unreal", "cmake", "directory">>
                                    ELSE <<strategy>>,
                                    disk, allFiles))

\* detect(strategy, prebuiltModules, allFiles): the resolver after the call
detect(resolver, strategy, prebuilt, allFiles, disk) ==
    detectFrom(clear(resolver).modules, strategy, prebuilt, allFiles, disk)

----------------------------------------------------------------------------
(* ProjectFileParser.  The project files on disk are a function from the    *)
(* path of a file to [exists, readable, items]: items are the project       *)
(* references a solution holds and the Include values a project holds, as   *)
(* written.  Paths are resolved as on Windows, where both separators split. *)

RECURSIVE splitParts(_, _, _)
\* the components of p, each a token sequence
splitParts(p, cur, acc) ==
    IF p = <<>> THEN (IF cur = <<>> THEN acc ELSE Append(acc, cur))
    ELSE IF Head(p) \in {"/", "\\"}
         THEN splitParts(Tail(p), <<>>, IF cur = <<>> THEN acc ELSE Append(acc, cur))
         ELSE splitParts(Tail(p), Append(cur, Head(p)), acc)

RECURSIVE walkParts(_, _, _)
\* path.resolve followed by path.relative(rootPath, .): the components applied
\* to a directory below the root; up counts the steps taken above the root
walkParts(dir, up, parts) ==
    IF parts = <<>> THEN [path |-> dir, up |-> up]
    ELSE IF Head(parts) = <<"..">>
         THEN IF dir = <<>>
              THEN walkParts(dir, up + 1, Tail(parts))
              ELSE walkParts(dirname(dir), up, Tail(parts))
         ELSE walkParts(join(dir, Head(parts)), up, Tail(parts))

\* path.relative(rootPath, path.resolve(dir, raw)) with forward slashes;
\* up > 0 says that the result starts with '..'
relativeTo(dir, raw) == walkParts(dir, 0, splitParts(raw, <<>>, <<>>))

NoProjectFile == [exists |-> FALSE, readable |-> FALSE, items |-> <<>>]

\* fs.promises.readFile succeeds
projectReadable(projects, p) ==
    p \in DOMAIN projects /\ projects[p].exists /\ projects[p].readable

RECURSIVE itemLoop(_, _, _)
\* parseVcxproj: the regex loop over the ClCompile and ClInclude items
itemLoop(projDir, items, files) ==
    IF items = <<>> THEN files
    ELSE itemLoop(projDir, Tail(items),
                  IF relativeTo(projDir, Head(items)).up > 0 THEN files
                  ELSE files \cup {relativeTo(projDir, Head(items)).path})

\* parseVcxproj(vcxprojPath): the files of the project, none when it cannot be read
parseVcxproj(projects, vcxprojPath) ==
    IF ~projectReadable(projects, vcxprojPath) THEN {}
    ELSE itemLoop(dirname(vcxprojPath), projects[vcxprojPath].items, {})

\* path.basename(p, '.vcxproj')
projectName(p) == basename(p)[1]

EmptyParse == [projectScope |-> {}, modules |-> <<>>]

RECURSIVE referenceLoop(_, _, _, _)
\* parseSolution: the regex loop that keeps the referenced projects found on disk
referenceLoop(projects, slnDir, refs, vcxprojPaths) ==
    IF refs = <<>> THEN vcxprojPaths
    ELSE referenceLoop(projects, slnDir, Tail(refs),
            IF /\ relativeTo(slnDir, norm(Head(refs))).path \in DOMAIN projects
               /\ relativeTo(slnDir, norm(Head(refs))).up = 0
               /\ projects[relativeTo(slnDir, norm(Head(refs))).path].exists
            THEN Append(vcxprojPaths, relativeTo(slnDir, norm(Head(refs))).path)
            ELSE vcxprojPaths)

RECURSIVE projectLoop(_, _, _)
\* parseSolution: the loop over the projects; modules is keyed by project name
projectLoop(projects, vcxprojPaths, acc) ==
    IF vcxprojPaths = <<>> THEN acc
    ELSE projectLoop(projects, Tail(vcxprojPaths),
            [projectScope |-> acc.projectScope \cup parseVcxproj(projects, Head(vcxprojPaths)),
             modules |-> modulesSet(acc.modules,
                            Desc(projectName(Head(vcxprojPaths)),
                                 dirname(Head(vcxprojPaths)), "vcxproj",
                                 parseVcxproj(projects, Head(vcxprojPaths))))])

\* parseSolution(slnPath)
parseSolution(projects, slnPath) ==
    IF ~projectReadable(projects, slnPath) THEN EmptyParse
    ELSE projectLoop(projects,
                     referenceLoop(projects, dirname(slnPath), projects[slnPath].items, <<>>),
                     EmptyParse)

\* parseWithModules(projectFilePath)
parseWithModules(projects, projectFilePath) ==
    IF toLowerCase(extname(projectFilePath)) = ".sln"
    THEN parseSolution(projects, projectFilePath)
    ELSE IF toLowerCase(extname(projectFilePath)) = ".vcxproj"
         THEN [projectScope |-> parseVcxproj(projects, projectFilePath),
               modules |-> <<Desc(projectName(projectFilePath), dirname(projectFilePath),
                                  "vcxproj", parseVcxproj(projects, projectFilePath))>>]
         ELSE EmptyParse

\* analyze, step 1b: the parse result, the empty one when no project file is set
parsedOf(projects, projectFile) ==
    IF projectFile = <<>> THEN EmptyParse ELSE parseWithModules(projects, projectFile)

\* analyze, step 1b: scanOptions after the parse
scanOptionsOf(options, parseResult) ==
    IF Cardinality(parseResult.projectScope) > 0
    THEN [options EXCEPT !.projectScope = Scope(parseResult.projectScope)]
    ELSE options

\* analyze, step 1b: prebuiltModules after the parse, <<>> standing for undefined
prebuiltOf(parseResult) ==
    IF Len(parseResult.modules) > 0 THEN parseResult.modules ELSE <<>>

\* analyze, step 3b: the resolver after module detection
detectionOf(resolver, moduleDetection, prebuilt, allFiles, disk) ==
    IF moduleDetection # "none"
    THEN detect(resolver, moduleDetection, prebuilt, allFiles, disk)
    ELSE resolver

----------------------------------------------------------------------------
(* IEEE 754 binary64 arithmetic on positive numbers, as the JS Number        *)
(* operations of calculatePercentage use it.  A double is [bits, exp]: bits  *)
(* are its 53 significant bits, the first of them 1, and the first bit has   *)
(* the weight 2^exp.                                                        *)

MantissaBits == 53

\* the last place up to position i that holds a 0
lastZero(bits, i) ==
    CHOOSE z \in 1..i : bits[z] = 0 /\ \A j \in (z + 1)..i : bits[j] = 1

\* add one unit in the last place to the bits up to position i; <<>> when all were 1
increment(bits, i) ==
    IF \A j \in 1..i : bits[j] = 1 THEN <<>>
    ELSE [j \in DOMAIN bits |->
            IF j < lastZero(bits, i) \/ j > i THEN bits[j]
            ELSE IF j = lastZero(bits, i) THEN 1 ELSE 0]

\* the bits after a carry out of the first place: 1 followed by zeros
carried == [i \in 1..MantissaBits |-> IF i = 1 THEN 1 ELSE 0]

\* the double of the exact value with bits all (at least 54, the first 1), the
\* first of weight 2^exp, sticky saying that the value has further non-zero bits
\* behind them: round to nearest, ties to even
roundToDouble(all, exp, sticky) ==
    IF /\ all[MantissaBits + 1] = 1
       /\ \/ sticky
          \/ \E i \in (MantissaBits + 2)..Len(all) : all[i] = 1
          \/ all[MantissaBits] = 1
    THEN IF increment(SubSeq(all, 1, MantissaBits), MantissaBits) = <<>>
         THEN [bits |-> carried, exp |-> exp + 1]
         ELSE [bits |-> increment(SubSeq(all, 1, MantissaBits), MantissaBits), exp |-> exp]
    ELSE [bits |-> SubSeq(all, 1, MantissaBits), exp |-> exp]

RECURSIVE powerOfTwoMod(_, _)
\* 2^k modulo d
powerOfTwoMod(k, d) ==
    IF k = 0 THEN 1 % d
    ELSE IF k % 2 = 1 THEN (2 * powerOfTwoMod(k - 1, d)) % d
    ELSE (powerOfTwoMod(k \div 2, d) * powerOfTwoMod(k \div 2, d)) % d

\* long division: the remainder left behind k further bits of the quotient, rem
\* being the remainder behind its first bit
remainderAfter(rem, d, k) == (rem * powerOfTwoMod(k, d)) % d

\* long division: the first bit of the quotient and k further bits behind it,
\* each a 1 when twice the remainder before it holds the divisor
quotientBits(rem, d, k) ==
    [i \in 1..(k + 1) |->
        IF i = 1 THEN 1
        ELSE IF 2 * remainderAfter(rem, d, i - 2) >= d THEN 1 ELSE 0]

RECURSIVE divide(_, _, _)
\* n / d for integers n, d > 0: n and d are scaled until 1 <= n / d < 2, exp
\* counting the scaling
divide(n, d, exp) ==
    IF n < d THEN divide(2 * n, d, exp - 1)
    ELSE IF n >= 2 * d THEN divide(n, 2 * d, exp + 1)
    ELSE roundToDouble(quotientBits(n - d, d, MantissaBits), exp,
                       remainderAfter(n - d, d, MantissaBits) # 0)

RECURSIVE binary(_)
\* the binary digits of a positive integer, the first of them 1
binary(n) == IF n = 0 THEN <<>> ELSE Append(binary(n \div 2), n % 2)

RECURSIVE valueOf(_)
\* the integer that a sequence of bits writes
valueOf(bits) == IF bits = <<>> THEN 0 ELSE 2 * valueOf(SubSeq(bits, 1, Len(bits) - 1)) + Last(bits)

\* the last w binary digits of v
lastBits(v, w) == [j \in 1..w |-> (v \div 2^(w - j)) % 2]

\* the place where the step of the product that ends at place i begins, a step
\* taking eight bits at a time
stepStart(i) == IF i > 8 THEN i - 7 ELSE 1

RECURSIVE productBits(_, _, _, _)
\* the exact product of the bits of a double up to place i and the integer c,
\* carry coming from the places behind, from the last bits to the first
productBits(bits, i, c, carry) ==
    IF i = 0 THEN binary(carry)
    ELSE productBits(bits, stepStart(i) - 1, c,
                     (valueOf(SubSeq(bits, stepStart(i), i)) * c + carry)
                        \div 2^(i - stepStart(i) + 1))
         \o lastBits(valueOf(SubSeq(bits, stepStart(i), i)) * c + carry,
                     i - stepStart(i) + 1)

\* x * c for a double x and an integer c >= 2
timesRounded(x, product) ==
    roundToDouble(product, x.exp + Len(product) - MantissaBits, FALSE)

times(x, c) == timesRounded(x, productBits(x.bits, MantissaBits, c, 0))

\* Math.round of a positive double below 2^52: the integer part, plus one when
\* the bit of weight 1/2 is set (a tie goes up)
mathRound(x) ==
    IF x.exp < -1 THEN 0
    ELSE IF x.exp = -1 THEN 1
    ELSE valueOf(SubSeq(x.bits, 1, x.exp + 1)) + x.bits[x.exp + 2]

----------------------------------------------------------------------------
(* ChangeAnalyzer.analyze, steps 4 to 6: the report *)

\* ImpactEstimator.calculatePercentage, in tenths of a percent:
\* Math.round((affectedCount / totalCount) * 1000), the division and the
\* product being those of doubles (0 / totalCount is 0, and so is the rest)
calculatePercentage(affectedCount, totalCount) ==
    IF totalCount = 0 THEN 0
    ELSE IF affectedCount = 0 THEN 0
    ELSE mathRound(times(divide(affectedCount, totalCount, 0), 1000))

RECURSIVE addAll(_, _)
\* rebuildFiles.forEach((f) => allRebuildFiles.add(f))
addAll(set, files) ==
    IF files = <<>> THEN set ELSE addAll(SetAdd(set, Head(files)), Tail(files))

denominator_ignoresScope(g, tracked) ==
    IF Len(g.allFiles) > 0 THEN Len(g.allFiles) ELSE tracked

\* analyze, step 4: the denominator, tracked being what getTotalFileCount gives
denominator(g, tracked) == IF totalFiles(g) > 0 THEN totalFiles(g) ELSE tracked

\* analyze, step 5: rebuildFiles of one commit, as the array it is
rebuildList(g, changedPaths) ==
    IF totalFiles(g) > 0 THEN SeqOf(getAffectedFiles(g, changedPaths)) ELSE changedPaths

\* analyze, step 5: the CommitImpact pushed for one commit
commitImpact(g, resolver, hash, tracked) ==
    [commit           |-> hash,
     impactPercentage |-> calculatePercentage(Len(rebuildList(g, getCommitFiles(hash))),
                                              denominator(g, tracked)),
     affectedFiles    |-> getCommitFiles(hash),
     rebuildFiles     |-> rebuildList(g, getCommitFiles(hash)),
     affectedModules  |-> groupByModule(resolver, rebuildList(g, getCommitFiles(hash)))]

RECURSIVE commitLoop(_, _, _, _, _)
\* analyze, step 5: <<commitImpacts, allRebuildFiles>> after the loop
commitLoop(g, resolver, rawCommits, tracked, acc) ==
    IF rawCommits = <<>> THEN acc
    ELSE commitLoop(g, resolver, Tail(rawCommits), tracked,
                    << Append(acc[1], commitImpact(g, resolver, Head(rawCommits), tracked)),
                       addAll(acc[2], rebuildList(g, getCommitFiles(Head(rawCommits)))) >>)

allRebuildFiles_lastCommitOnly(looped) ==
    IF looped[1] = <<>> THEN <<>> ELSE looped[1][Len(looped[1])].rebuildFiles

\* analyze, step 6: Array.from(allRebuildFiles)
allRebuildFilesOf(looped) == looped[2]

\* analyze, step 6: the ImpactReport made of what the loop left
reportOf(g, resolver, tracked, looped) ==
    [present                |-> TRUE,
     globalImpactPercentage |-> calculatePercentage(Len(allRebuildFilesOf(looped)),
                                                    denominator(g, tracked)),
     totalProjectFiles      |-> denominator(g, tracked),
     totalAffectedFiles     |-> Len(allRebuildFilesOf(looped)),
     commitImpacts          |-> looped[1],
     allRebuildFiles        |-> allRebuildFilesOf(looped),
     totalModules           |-> Len(resolver.modules),
     affectedModuleCount    |-> Len(groupByModule(resolver, allRebuildFilesOf(looped))),
     moduleImpacts          |-> groupByModule(resolver, allRebuildFilesOf(looped))]

\* analyze, steps 4 to 6
makeReport(g, resolver, rawCommits, tracked) ==
    reportOf(g, resolver, tracked, commitLoop(g, resolver, rawCommits, tracked, <<<<>>, <<>>>>))

----------------------------------------------------------------------------
(* ReportSpec: steps 4 to 6 of analyze for every small combination of graph, *)
(* modules, incoming commits and tracked-file count                         *)

\* a workspace without any C++ file
EmptyWorkspace == [f \in FileUniverse |-> Absent]

\* the graph after build: with and without C++ files, with and without a scope
ReportGraphs ==
    {ColdGraph(w, [DefaultOptions EXCEPT !.projectScope = sc]) :
        w \in {RWorkspace, EmptyWorkspace}, sc \in {NoScope, Scope(RProjectScope)}}

Mod(name, files) == [name |-> name, path |-> name, type |-> "directory", files |-> files]

\* what module detection may have registered
ReportModules ==
    {<<>>,
     <<Mod("core", {aCpp, bH}), Mod("lib", {cH, aCpp})>>,
     <<Mod("lib", {cH}), Mod("docs", {readme})>>}

ReportCommits == {"k1", "k2", "k3", "k4"}

\* what git ls-files counts, 0 also when the command fails
TrackedCounts == {0, 7}

IInit ==
    /\ graph \in ReportGraphs
    /\ changedArg = <<>>
    /\ result = {}
    /\ queried = FALSE
    /\ fs = RWorkspace
    /\ clock = 0
    /\ store = NoCache
    /\ opts = DefaultOptions
    /\ origin = "built"
    /\ graphDelta = {}
    /\ storeDelta = {}
    /\ lastBuild = NoBuild
    /\ builds = 0
    /\ scan = NoScan
    /\ moduleResolver = NoModules
    /\ call = NoCall
    /\ analysisRunning = TRUE
    /\ pc = [r \in Requests |-> IF r = "analyze" THEN "modules" ELSE "idle"]
    /\ \E mods \in ReportModules, commits \in SeqsUpTo(ReportCommits, MaxCommits),
          tracked \in TrackedCounts :
          run = [r \in Requests |->
                   IF r = "analyze"
                   THEN [IdleRun EXCEPT !.depGraph = graph,
                                        !.rawCommits = commits,
                                        !.moduleResolver = detected(mods),
                                        !.trackedFiles = tracked]
                   ELSE IdleRun]
    /\ phaseLog = [r \in Requests |-> <<>>]
    /\ outcome = "none"
    /\ loading = TRUE
    /\ report = NoReport

\* analyze runs from the denominator to its return, and the report is shown
MakeReport ==
    /\ pc["analyze"] = "modules"
    /\ report' = makeReport(run["analyze"].depGraph, run["analyze"].moduleResolver,
                            run["analyze"].rawCommits, run["analyze"].trackedFiles)
    /\ pc' = [pc EXCEPT !["analyze"] = "finally"]
    /\ outcome' = "report"
    /\ loading' = FALSE
    /\ UNCHANGED <<graph, queryVars, graphVars, scanVars, analysisRunning, run, phaseLog>>

INext == MakeReport

ReportSpec == IInit /\ [][INext]_vars

----------------------------------------------------------------------------
(* DetectSpec: detect called again and again on one ModuleResolver, for      *)
(* every strategy, with and without pre-built modules, on every small disk  *)

\* the extension and the graph at rest: every variable but moduleResolver and call
Idle ==
    /\ graph = NewGraph
    /\ changedArg = <<>>
    /\ result = {}
    /\ queried = FALSE
    /\ fs = RWorkspace
    /\ clock = 0
    /\ store = NoCache
    /\ opts = DefaultOptions
    /\ origin = "new"
    /\ graphDelta = {}
    /\ storeDelta = {}
    /\ lastBuild = NoBuild
    /\ builds = 0
    /\ scan = NoScan
    /\ analysisRunning = FALSE
    /\ pc = [r \in Requests |-> "idle"]
    /\ run = [r \in Requests |-> IdleRun]
    /\ phaseLog = [r \in Requests |-> <<>>]
    /\ outcome = "none"
    /\ loading = FALSE
    /\ report = NoReport

\* largest number of detect calls on one resolver
MaxDetects == 2

DetectStrategies == {"auto", "vcxproj", "unreal", "cmake", "directory", "none"}

\* the disks of the model: with and without C++ files, Build.cs files (one in a
\* directory without C++ files) and CMakeLists.txt files (with a variable as a
\* target name and with a target declared twice)
DetectDisks ==
    {[dirs |-> {"src", "inc"}, cppFiles |-> files, buildCs |-> b, cmake |-> c] :
        files \in {{}, FileUniverse},
        b \in {<<>>,
               <<[name |-> "Game", dir |-> <<"src">>]>>,
               <<[name |-> "Docs", dir |-> <<"docs">>]>>},
        c \in {<<>>,
               <<[dir |-> <<>>, targets |-> <<"app">>]>>,
               <<[dir |-> <<"inc">>, targets |-> <<"${PROJECT_NAME}", "lib">>],
                 [dir |-> <<>>, targets |-> <<"lib", "app">>]>>}}

\* what the project-file parser may have produced
DetectPrebuilt == {<<>>, <<Desc("Core", <<"a">>, "vcxproj", {aCpp, cH})>>}

DInit ==
    /\ Idle
    /\ moduleResolver = NoModules
    /\ call = NoCall

\* await this.moduleResolver.detect(moduleDetection, prebuiltModules, allFiles)
Detect(strategy, prebuilt, disk, allFiles) ==
    /\ IF call.op = "detect" THEN call.calls < MaxDetects ELSE TRUE
    /\ moduleResolver' = detect(moduleResolver, strategy, prebuilt, allFiles, disk)
    /\ call' = [op |-> "detect", strategy |-> strategy, prebuilt |-> prebuilt,
                disk |-> disk, allFiles |-> allFiles, before |-> moduleResolver,
                calls |-> IF call.op = "detect" THEN call.calls + 1 ELSE 1]
    /\ UNCHANGED <<graph, queryVars, graphVars, runVars, scan>>

DNext ==
    \E strategy \in DetectStrategies, prebuilt \in DetectPrebuilt, disk \in DetectDisks :
       \E allFiles \in {<<>>, SeqOf(disk.cppFiles)} :
          Detect(strategy, prebuilt, disk, allFiles)

DetectSpec == DInit /\ [][DNext]_vars

----------------------------------------------------------------------------
(* ProjectSpec: analyze from the project file parse to module detection, for *)
(* every small set of project files on disk, configured project file and    *)
(* detection strategy                                                       *)

appSln  == <<"app", ".sln">>
coreA   == <<"a", "/", "Core", ".vcxproj">>
coreB   == <<"b", "/", "Core", ".vcxproj">>
utilLib == <<"lib", "/", "Util", ".vcxproj">>
notes   == <<"notes", ".txt">>

\* a project file that can be read, with what it holds
Readable(items) == [exists |-> TRUE, readable |-> TRUE, items |-> items]

\* a project file that exists and cannot be read
Unreadable == [exists |-> TRUE, readable |-> FALSE, items |-> <<>>]

\* the Include values of each project: a\Core lists the two files of src and one
\* outside the workspace, b\Core lists inc/c.h, lib\Util lists inc/c.h and src/a.cpp
ProjectItems(p) ==
    CASE p = coreA -> << <<"..", "\\", "src", "\\", "a", ".cpp">>,
                         <<"..", "\\", "src", "\\", "b", ".h">>,
                         <<"..", "\\", "..", "\\", "sdk", "\\", "x", ".cpp">> >>
      [] p = coreB -> << <<"..", "/", "inc", "/", "c", ".h">> >>
      [] OTHER     -> << <<"..", "/", "inc", "/", "c", ".h">>,
                         <<"..", "\\", "src", "\\", "a", ".cpp">> >>

\* the states of one project on disk: missing, unreadable, without any item, well-formed
ProjectStates(p) == {NoProjectFile, Unreadable, Readable(<<>>), Readable(ProjectItems(p))}

\* the project references a solution may hold
SolutionItems ==
    {<<>>,
     << <<"a", "\\", "Core", ".vcxproj">>, <<"lib", "\\", "Util", ".vcxproj">> >>,
     << <<"a", "\\", "Core", ".vcxproj">>, <<"b", "\\", "Core", ".vcxproj">> >>,
     << <<"lib", "\\", "Util", ".vcxproj">>, <<"lib", "\\", "Util", ".vcxproj">> >>}

\* rebuildRadar.projectFile: unset, the solution, one project, a text file
ConfiguredProjectFiles == {<<>>, appSln, <<"app", ".SLN">>, coreA, notes}

\* the workspace of RWorkspace as module detection meets it, without and with
\* a CMakeLists.txt at the root
ProjectDisks ==
    {[dirs |-> {"src", "inc"}, cppFiles |-> FileUniverse, buildCs |-> <<>>, cmake |-> c] :
        c \in {<<>>, <<[dir |-> <<>>, targets |-> <<"app">>]>>}}

PInit ==
    /\ Idle
    /\ moduleResolver = NoModules
    /\ \E sln \in {Unreadable} \cup {Readable(i) : i \in SolutionItems},
          a \in ProjectStates(coreA), b \in ProjectStates(coreB),
          u \in {NoProjectFile, Readable(ProjectItems(utilLib))},
          projectFile \in ConfiguredProjectFiles,
          moduleDetection \in DetectStrategies,
          disk \in ProjectDisks :
          call = [op |-> "analyze", done |-> FALSE,
                  projects |-> (appSln :> sln) @@ (<<"app", ".SLN">> :> sln) @@ (coreA :> a)
                                  @@ (coreB :> b) @@ (utilLib :> u) @@ (notes :> Readable(<<>>)),
                  projectFile |-> projectFile, moduleDetection |-> moduleDetection,
                  disk |-> disk, parsed |-> EmptyParse]

\* analyze, steps 1 to 3b: the project file is parsed, the graph is built with
\* the scope it gave and the modules are detected
AnalyzeSetup ==
    /\ call.op = "analyze" /\ ~call.done
    /\ call' = [call EXCEPT !.done = TRUE,
                            !.parsed = parsedOf(call.projects, call.projectFile)]
    /\ opts' = scanOptionsOf(opts, parsedOf(call.projects, call.projectFile))
    /\ graph' = build(graph, fs,
                      scanOptionsOf(opts, parsedOf(call.projects, call.projectFile))).graph
    /\ origin' = "built"
    /\ moduleResolver' =
          detectionOf(moduleResolver, call.moduleDetection,
                      prebuiltOf(parsedOf(call.projects, call.projectFile)),
                      build(graph, fs,
                            scanOptionsOf(opts, parsedOf(call.projects, call.projectFile))
                           ).graph.allFiles,
                      call.disk)
    /\ UNCHANGED <<queryVars, fs, clock, store, graphDelta, storeDelta, lastBuild, builds,
                   runVars, scan>>

PNext == AnalyzeSetup

ProjectSpec == PInit /\ [][PNext]_vars

----------------------------------------------------------------------------
(* PercentSpec: calculatePercentage on small counts and totals, and on the   *)
(* counts around the half of a total of 400                                 *)

\* largest count and total of the dense part of the inputs
MaxPercent == 12

PercentTotals == (0..MaxPercent) \cup {400}

PercentCounts == (0..MaxPercent) \cup {199, 200, 201, 400}

CInit ==
    /\ Idle
    /\ moduleResolver = NoModules
    /\ \E a \in PercentCounts, t \in PercentTotals :
          call = [op |-> "calculatePercentage", done |-> FALSE,
                  affectedCount |-> a, totalCount |-> t, result |-> 0]

\* ImpactEstimator.calculatePercentage(affectedCount, totalCount)
CalculatePercentage ==
    /\ call.op = "calculatePercentage" /\ ~call.done
    /\ call' = [call EXCEPT !.done = TRUE,
                            !.result = calculatePercentage(call.affectedCount, call.totalCount)]
    /\ UNCHANGED <<graph, queryVars, graphVars, runVars, scan, moduleResolver>>

PctNext == CalculatePercentage

PercentSpec == CInit /\ [][PctNext]_vars

----------------------------------------------------------------------------
(* CommitParser.toCommitInfo on the raw commits of GitService.getCommitsAhead *)
(* A string is the sequence of its characters; in a subject, an author name  *)
(* or a date one token stands for a run of characters without "|", and the   *)
(* token "|||" for the separator of the log format.                          *)

HexDigits == <<"0", "1", "2", "3", "4", "5", "6", "7",
               "8", "9", "a", "b", "c", "d", "e", "f">>

\* number of hex digits that %H prints for a SHA-1 and for a SHA-256 object id
Sha1Length == 40

Sha256Length == 64

\* number of characters of the short id
ShortLength == 8

ObjectId(length, k) ==
    [i \in 1..length |-> HexDigits[((i * k + i \div 9) % 16) + 1]]

\* str.substring(indexStart, indexEnd): both indices are clamped to the length
\* of the string and swapped when the first is the larger
substring(str, indexStart, indexEnd) ==
    LET lo == IF indexStart < 0 THEN 0
              ELSE IF indexStart > Len(str) THEN Len(str) ELSE indexStart
        hi == IF indexEnd < 0 THEN 0
              ELSE IF indexEnd > Len(str) THEN Len(str) ELSE indexEnd
    IN IF lo <= hi THEN SubSeq(str, lo + 1, hi) ELSE SubSeq(str, hi + 1, lo)

\* line.split('|||'): the pieces between the start of the line, the separators
\* in their order and the end of the line
split(line) ==
    LET cuts == {0, Len(line) + 1} \cup {i \in 1..Len(line) : line[i] = "|||"}
        cut(k) == CHOOSE i \in cuts : Cardinality({j \in cuts : j < i}) = k
    IN [k \in 1..(Cardinality(cuts) - 1) |-> SubSeq(line, cut(k - 1) + 1, cut(k) - 1)]

\* one line of git log --pretty=format:%H|||%s|||%an|||%ai
logLine(commit) ==
    commit.H \o <<"|||">> \o commit.s \o <<"|||">> \o commit.an \o <<"|||">> \o commit.ai

\* the raw commit that getCommitsAhead makes of one line
rawCommitOf(line) ==
    LET fields == split(line)
    IN [hash |-> fields[1], message |-> fields[2], author |-> fields[3], date |-> fields[4]]

toCommitInfo_sevenCharacters(rawCommit, files) ==
    [hash          |-> substring(rawCommit.hash, 0, ShortLength - 1),
     fullHash      |-> rawCommit.hash,
     message       |-> rawCommit.message,
     author        |-> rawCommit.author,
     date          |-> rawCommit.date,
     affectedFiles |-> files]

\* CommitParser.toCommitInfo(rawCommit, files)
toCommitInfo(rawCommit, files) ==
    [hash          |-> substring(rawCommit.hash, 0, ShortLength),
     fullHash      |-> rawCommit.hash,
     message       |-> rawCommit.message,
     author        |-> rawCommit.author,
     date          |-> rawCommit.date,
     affectedFiles |-> files]

\* the commits of the tracking branch: two SHA-1 ids that agree in their first
\* nine digits, a third SHA-1 id and a SHA-256 id
LoggedIds ==
    {ObjectId(Sha1Length, 1),
     [ObjectId(Sha1Length, 1) EXCEPT ![Sha1Length] = "f"],
     ObjectId(Sha1Length, 3),
     ObjectId(Sha256Length, 5)}

LoggedSubjects == {<<>>, <<"Fix rendering bug">>, <<"a ", "|||", " b">>}

LoggedAuthors == {<<"Test Author">>, <<>>}

LoggedDates == {<<"2026-01-15 10:30:00 +0000">>, <<"2026-01-01 00:00:00 +0100">>}

\* what getCommitFiles answers for the commit
LoggedFiles ==
    {<<>>,
     <<[filePath |-> cH, changeType |-> "modified"]>>,
     <<[filePath |-> aCpp, changeType |-> "added"],
       [filePath |-> <<"src", "\\", "a", ".cpp">>, changeType |-> "renamed"],
       [filePath |-> readme, changeType |-> "deleted"]>>}

TInit ==
    /\ Idle
    /\ moduleResolver = NoModules
    /\ \E H \in LoggedIds, s \in LoggedSubjects, an \in LoggedAuthors,
          ai \in LoggedDates, files \in LoggedFiles :
          call = [op |-> "toCommitInfo", done |-> FALSE,
                  rawCommit |-> rawCommitOf(logLine([H |-> H, s |-> s, an |-> an, ai |-> ai])),
                  files |-> files]

\* ChangeAnalyzer.analyze, loop body: CommitParser.toCommitInfo(raw, files)
ToCommitInfo ==
    /\ call.op = "toCommitInfo" /\ ~call.done
    /\ call' = [op |-> "toCommitInfo", done |-> TRUE,
                rawCommit |-> call.rawCommit, files |-> call.files,
                commitInfo |-> toCommitInfo(call.rawCommit, call.files)]
    /\ UNCHANGED <<graph, queryVars, graphVars, runVars, scan, moduleResolver>>

TNext == ToCommitInfo

CommitSpec == TInit /\ [][TNext]_vars

----------------------------------------------------------------------------
(* ResolveSpec: resolveInclude on the filename index of a tree with several *)
(* files named Foo.h.  A directory name is written as the character runs it  *)
(* is made of, so that "MyModule" ends with the run "Module".               *)

fooModule == <<"src", "/", "Module", "/", "Foo", ".h">>
fooMyModule == <<"src", "/", "My", "Module", "/", "Foo", ".h">>
fooLib == <<"lib", "/", "Foo", ".h">>
fooXModule == <<"X", "Module", "/", "Foo", ".h">>
fooDeep == <<"src", "/", "deep", "/", "Module", "/", "Foo", ".h">>

FooFiles == {fooModule, fooMyModule, fooLib, fooXModule, fooDeep}

\* the number of directories above a file
depth(f) == Cardinality({i \in DOMAIN f : f[i] = "/"})

\* the orders in which scanDirectory can list a set of files that lie in
\* different directories: a directory is read before every deeper one, and
\* directories of equal depth in the order readdir names them
ScanOrders(S) ==
    {q \in [1..Cardinality(S) -> S] :
        /\ \A i, j \in DOMAIN q : i # j => q[i] # q[j]
        /\ \A i, j \in DOMAIN q : i < j => depth(q[i]) <= depth(q[j])}

RECURSIVE listedIndex(_, _)
\* the filename index after the scan listed the files in this order
listedIndex(q, sc) ==
    IF q = <<>> THEN sc.fileIndex ELSE listedIndex(Tail(q), addFile(sc, Head(q)))

\* the graph of a cold build of the tree, as far as resolveInclude reads it
FooGraph(q) ==
    [NewGraph EXCEPT !.allFiles = q, !.built = TRUE,
                     !.fileIndex = listedIndex(q, [allFiles |-> <<>>, fileIndex |-> EmptyMap,
                                                   dirQueue |-> <<>>])]

FooDisk(S) == [f \in S |-> [exists |-> TRUE, mtime |-> 1, content |-> <<>>, io |-> "ok"]]

\* the include strings and the directories of the including files
FooIncludes == {<<"Module", "/", "Foo", ".h">>, <<"Foo", ".h">>, <<"My", "Module", "/", "Foo", ".h">>}

FooFromDirs == {<<"app">>, <<"src">>, <<"src", "/", "Module">>}

VInit ==
    /\ Idle
    /\ moduleResolver = NoModules
    /\ \E S \in SUBSET FooFiles : \E q \in ScanOrders(S) :
       \E includePath \in FooIncludes, fromDir \in FooFromDirs :
          call = [op |-> "resolveInclude", done |-> FALSE, listed |-> q,
                  includePath |-> includePath, fromDir |-> fromDir, resolved |-> <<>>]

\* parseIncludes: this.resolveInclude(includePath, fileDir)
ResolveInclude ==
    /\ call.op = "resolveInclude" /\ ~call.done
    /\ call' = [call EXCEPT !.done = TRUE,
                            !.resolved = resolveInclude(FooGraph(call.listed),
                                                        FooDisk(Range(call.listed)),
                                                        call.includePath, call.fromDir)]
    /\ UNCHANGED <<graph, queryVars, graphVars, runVars, scan, moduleResolver>>

VNext == ResolveInclude

ResolveSpec == VInit /\ [][VNext]_vars

----------------------------------------------------------------------------
(* Properties of getAffectedFiles, checked under QuerySpec *)

QUniverse(g, changedFiles) ==
    QNodes \cup {norm(f) : f \in Range(changedFiles)}
           \cup DOMAIN g.reverseDeps \cup UNION {g.reverseDeps[k] : k \in DOMAIN g.reverseDeps}

\* T holds the normalized inputs and, with a header, its direct reverse-dependents
ClosedUnderHeaders(g, changedFiles, T) ==
    /\ \A f \in Range(changedFiles) : norm(f) \in T
    /\ \A h \in T : isHeader(h) => Get(g.reverseDeps, h, {}) \subseteq T

\* the least such set: what lies in every one of them
LeastClosed(g, changedFiles) ==
    LET U == QUniverse(g, changedFiles)
    IN {x \in U : \A T \in SUBSET U : ClosedUnderHeaders(g, changedFiles, T) => x \in T}

\* the files from which h is reachable by one or more #include edges
TransitiveIncluders(g, h) ==
    LET U == QUniverse(g, <<h>>)
        Closed(T) == /\ Get(g.reverseDeps, h, {}) \subseteq T
                     /\ \A x \in T : Get(g.reverseDeps, x, {}) \subseteq T
    IN {x \in U : \A T \in SUBSET U : Closed(T) => x \in T}

Unscoped == queried /\ ~graph.projectScope.set

C2_EveryTransitiveIncluderAffected ==
    (Unscoped /\ Len(changedArg) = 1 /\ isHeader(changedArg[1]))
        => TransitiveIncluders(graph, norm(changedArg[1])) \subseteq result

\* C3: with no project scope, for a path f that has no header extension,
\* getAffectedFiles([f]) holds f (in its forward-slash form) and nothing
\* else, whatever reverse-dependents f has.
C3_SourceChangeIsolated ==
    (Unscoped /\ Len(changedArg) = 1 /\ ~isHeader(changedArg[1]))
        => result = {norm(changedArg[1])}

\* C3 witness: a changed source file that other files include.
C3_Witness ==
    /\ Unscoped
    /\ changedArg = <<dCpp>>
    /\ Get(graph.reverseDeps, dCpp, {}) = {aCpp, bHPP}
    /\ result = {dCpp}

\* C4: with a project scope P, getAffectedFiles(changed) is the unscoped
\* rebuild closure intersected with P.
C4_ScopedIsClosureInP ==
    (queried /\ graph.projectScope.set)
        => /\ result = LeastClosed(graph, changedArg) \cap graph.projectScope.files
           /\ result \subseteq graph.projectScope.files

\* C4 witness: the changed header lies outside P and is dropped; a file of P
\* reached only through that header is returned, a dependent outside P is not.
C4_Witness ==
    /\ queried
    /\ graph.projectScope = Scope({aCpp, bHPP})
    /\ changedArg = <<cH>>
    /\ Get(graph.reverseDeps, cH, {}) = {aCpp, dCpp}
    /\ result = {aCpp}

----------------------------------------------------------------------------
(* Properties of build and the cache, checked under GraphSpec *)

\* the graph is the result of a build and the workspace is as that build saw it
Fresh == origin = "built" /\ graphDelta = {}

GQueries == SeqsUpTo(FileUniverse, MaxChanged)

\* graph g answers every query as graph cold does
AnswersAs(g, cold) ==
    \A c \in GQueries : getAffectedFiles(g, c) = getAffectedFiles(cold, c)

\* the graph answers every query as a cold build of the present workspace does
AnswersAsCold == AnswersAs(graph, ColdGraph(fs, opts))

\* the last build started from a graph loaded from the cache, and since the build
\* that wrote that cache one file was touched or rewritten and nothing else changed
OneFileModified(f) ==
    /\ lastBuild.done
    /\ lastBuild.from = "loaded"
    /\ lastBuild.delta \in {{<<f, "touch">>}, {<<f, "write">>}}

\* C5: from a graph warm-loaded from the cache of a previous build, when exactly
\* one file's mtime changed since, the next build parses that file and no other
\* and the graph then answers every getAffectedFiles query as a cold build does.
C5_OneModifiedFileWarmAsCold ==
    \A f \in FileUniverse :
        (origin = "built" /\ OneFileModified(f))
            => /\ lastBuild.filesToParse = <<f>>
               /\ (Fresh => AnswersAsCold)

\* C6: after any workspace changes, loading the persisted cache and calling
\* build gives a graph that answers every getAffectedFiles query as a cold
\* build of the present workspace with the same options.
C6_WarmAnswersAsCold ==
    (Fresh /\ lastBuild.from = "loaded") => AnswersAsCold

\* the last build call was made on a graph that a build had just left, with no
\* workspace change in between
RepeatedBuild == lastBuild.done /\ lastBuild.from = "built" /\ lastBuild.delta = {}

\* C7: a second build in succession, with no workspace change in
\* between, parses zero files and leaves the file set, the mtimes, the
\* resolved includes and the reverse-dependency edges as they were.
C7_SecondBuildParsesNothing ==
    (origin = "built" /\ RepeatedBuild)
        => /\ lastBuild.filesToParse = <<>>
           /\ lastBuild.unchanged

\* no member of the sequence occurs in it twice
NoDuplicate(q) == \A i, j \in DOMAIN q : q[i] = q[j] => i = j

\* C14: getAffectedFiles terminates on every finite reverse-dependency graph
\* and every changed list, also when headers include each other in a cycle:
\* its loop dequeues at most once per input and once per path of the graph,
\* and no path enters the result set more than once.
C14_QueryTerminates ==
    queried =>
        LET w == walk(graph, changedArg)
        IN /\ w.returned
           /\ w.iterations <= Len(changedArg) + Cardinality(QNodes)
           /\ NoDuplicate(w.added)
           /\ Range(w.added) = w.affected
           /\ w.affected = closure(graph, changedArg)

\* C14 witness: a query from a header that lies on a cycle of headers.
C14_Witness ==
    /\ queried
    /\ changedArg = <<cH, cH>>
    /\ bHPP \in Get(graph.reverseDeps, cH, {})
    /\ cH \in Get(graph.reverseDeps, bHPP, {})
    /\ aCpp \in Get(graph.reverseDeps, bHPP, {})
    /\ {cH, bHPP, aCpp} \subseteq result

----------------------------------------------------------------------------
(* Properties of the cache, checked under CacheSpec *)

\* the persisted cache was built for another workspace root
Mismatched(st) == st.present /\ st.rootPath # RootPath

\* nothing of the other workspace's cache is in g
NothingOf(cache, g) ==
    \A i \in DOMAIN cache.files :
        LET e == cache.files[i]
        IN /\ e.path \notin FileUniverse =>
                 /\ e.path \notin Range(g.allFiles)
                 /\ e.path \notin DOMAIN g.fileMtimes
                 /\ e.path \notin DOMAIN g.fileIncludes
           /\ \A inc \in Range(e.includes) :
                 inc \notin FileUniverse =>
                    /\ inc \notin DOMAIN g.reverseDeps
                    /\ \A f \in DOMAIN g.fileIncludes : inc \notin Range(g.fileIncludes[f])

\* C11: a persisted cache whose root path differs from the workspace root is
\* never loaded: the cache manager returns nothing for it, the build that
\* follows is a cold build that parses every discovered file, and the graph it
\* leaves is the cold graph, with no file, mtime or edge of that cache.
C11_MismatchedCacheNotLoaded ==
    /\ [](Mismatched(store) => ~cacheManagerLoad(store, RootPath).present)
    /\ [][(Mismatched(store) /\ origin = "new" /\ origin' # "new") =>
            /\ origin' = "built"
            /\ ~lastBuild'.hadCache
            /\ Range(lastBuild'.filesToParse) = Range(graph'.allFiles)
            /\ Core(graph') = Core(ColdGraph(fs, opts))
            /\ NothingOf(store, graph')]_vars

\* C11 witness: a first build has run on a new graph while the store holds the
\* cache of another root, and has found and parsed files.
C11_Witness ==
    /\ Mismatched(store)
    /\ origin = "built"
    /\ lastBuild.done /\ lastBuild.from = "new" /\ builds = 1
    /\ ~lastBuild.hadCache
    /\ Len(lastBuild.filesToParse) >= 2
    /\ NothingOf(store, graph)

\* p is nowhere in g: not a file, not a key of the mtime or the includes map,
\* not a key of reverseDeps and not a member of a dependent set
Purged(g, p) ==
    /\ p \notin Range(g.allFiles)
    /\ p \notin DOMAIN g.fileMtimes
    /\ p \notin DOMAIN g.fileIncludes
    /\ p \notin DOMAIN g.reverseDeps
    /\ \A k \in DOMAIN g.reverseDeps : p \notin g.reverseDeps[k]

\* C13 (checked under CheckoutSpec): after a build that started from a loaded cache, every path that was in
\* the cache and is no longer discovered on disk is absent from the file set,
\* from the mtime and includes maps, and from reverseDeps as key and as member.
C13_RemovedFilesPurged ==
    [][(origin = "loaded" /\ origin' = "built") =>
          \A p \in Range(graph.allFiles) :
              p \notin Range(build(graph, fs, opts).discovered) => Purged(graph', p)]_vars

----------------------------------------------------------------------------
(* Properties of the directory scan, checked under ScanSpec *)

\* C15: the directory scan of a build terminates on the tree, whose symbolic
\* link src/up closes a directory cycle, and during the build no real
\* directory is read more than once, whatever include paths are configured.
C15_ScanReadsOnce ==
    scan.done => (scan.returned /\ NoDuplicate(scan.reads))

\* the directories that file path f lies in, as workspace-relative paths
AncestorDirs(f) == {SubSeq(f, 1, i - 1) : i \in {j \in DOMAIN f : f[j] = "/"}}

\* directory d is one the scan is to leave out
LeftOut(d, excludePaths) ==
    \/ basename(d)[1] \in SCAN_SKIP_DIRS
    \/ basename(d)[1] \in DotNames
    \/ d \in {norm(ex) : ex \in Range(excludePaths)}

\* C16: after a build no discovered file lies in a directory whose basename is
\* in the skip list or begins with a dot, or whose workspace-relative path is
\* an exclude path or lies under one, for every combination of include and
\* exclude paths.
C16_NoFileFromSkippedDir ==
    scan.done =>
        \A f \in Range(scan.files) :
            \A d \in AncestorDirs(f) : ~LeftOut(d, opts.excludePaths)

----------------------------------------------------------------------------
(* Properties of the report, checked under ReportSpec *)

\* the locals of the analysis whose report is shown
Analysed == run["analyze"]

\* the size of the project scope when one was parsed, of the file set otherwise
ScopeOrFiles(g) ==
    IF g.projectScope.set THEN Cardinality(g.projectScope.files) ELSE Len(g.allFiles)

\* C17: the denominator of the report is the size of the project scope when
\* a non-empty scope was parsed and the size of the discovered file set
\* otherwise; only when that is 0 it is the tracked-file count, and exactly
\* then the rebuild files of each commit are its changed files as they are,
\* while otherwise they are getAffectedFiles of its changed files.
C17_DenominatorAndExpansion ==
    report.present =>
        /\ report.totalProjectFiles =
              IF ScopeOrFiles(Analysed.depGraph) > 0
              THEN ScopeOrFiles(Analysed.depGraph)
              ELSE Analysed.trackedFiles
        /\ Len(report.commitImpacts) = Len(Analysed.rawCommits)
        /\ \A i \in DOMAIN report.commitImpacts :
              LET ci == report.commitImpacts[i]
              IN /\ ci.affectedFiles = getCommitFiles(Analysed.rawCommits[i])
                 /\ IF ScopeOrFiles(Analysed.depGraph) = 0
                    THEN ci.rebuildFiles = ci.affectedFiles
                    ELSE /\ NoDuplicate(ci.rebuildFiles)
                         /\ Range(ci.rebuildFiles) =
                               getAffectedFiles(Analysed.depGraph, ci.affectedFiles)

\* C17 witness: in a workspace without C++ files the denominator is the
\* tracked-file count and a commit's rebuild files are its two changed files.
C17_Witness ==
    /\ report.present
    /\ Len(Analysed.depGraph.allFiles) = 0
    /\ ~Analysed.depGraph.projectScope.set
    /\ report.totalProjectFiles = 7
    /\ Len(report.commitImpacts) = 1
    /\ report.commitImpacts[1].rebuildFiles = <<bH, readme>>

\* p is count / total as a percentage rounded to one decimal, in tenths
IsPercentage(p, count, total) ==
    IF total = 0 THEN p = 0
    ELSE 2000 * count - total < 2 * total * p /\ 2 * total * p <= 2000 * count + total

\* C18: in every report all_rebuild_files is the union of the rebuild files of
\* all commits, each path once; total_affected_files is its size; the global
\* percentage is that size against the denominator; the global module impacts
\* are the grouping of the union; every commit's rebuild files are part of it.
C18_GlobalIsUnion ==
    report.present =>
        /\ Range(report.allRebuildFiles) =
              UNION {Range(report.commitImpacts[i].rebuildFiles) :
                        i \in DOMAIN report.commitImpacts}
        /\ NoDuplicate(report.allRebuildFiles)
        /\ report.totalAffectedFiles = Cardinality(Range(report.allRebuildFiles))
        /\ IsPercentage(report.globalImpactPercentage, report.totalAffectedFiles,
                        report.totalProjectFiles)
        /\ report.moduleImpacts =
              groupByModule(Analysed.moduleResolver, report.allRebuildFiles)
        /\ report.affectedModuleCount = Len(report.moduleImpacts)
        /\ \A i \in DOMAIN report.commitImpacts :
              Range(report.commitImpacts[i].rebuildFiles) \subseteq Range(report.allRebuildFiles)

\* C18 witness: two commits with different rebuild files, whose union is
\* larger than either and falls into modules.
C18_Witness ==
    /\ report.present
    /\ Len(report.commitImpacts) = 2
    /\ \A i \in 1..2 : Len(report.commitImpacts[i].rebuildFiles) < report.totalAffectedFiles
    /\ report.moduleImpacts # <<>>
    /\ report.globalImpactPercentage > 0

\* C19: with no incoming commit the report has no commit impact, no rebuild
\* file, 0 affected files, 0 percent and 0 affected modules, whatever the
\* graph, the modules and the tracked-file count.
C19_NoCommitsZeroImpact ==
    (report.present /\ Analysed.rawCommits = <<>>) =>
        /\ report.commitImpacts = <<>>
        /\ report.allRebuildFiles = <<>>
        /\ report.totalAffectedFiles = 0
        /\ report.globalImpactPercentage = 0
        /\ report.affectedModuleCount = 0
        /\ report.moduleImpacts = <<>>

\* C19 witness: a report for no commit, in a workspace with files and modules.
C19_Witness ==
    /\ report.present
    /\ Analysed.rawCommits = <<>>
    /\ report.totalProjectFiles = 3
    /\ report.totalModules = 2

\* p, in tenths of a percent, lies between 0 and 100 percent
WithinHundred(p) == 0 <= p /\ p <= 1000

\* C36: in every report whose denominator comes from the graph,
\* total_affected_files is at most total_project_files, so the global
\* percentage and the percentage of every commit lie between 0 and 100, also
\* when commits change paths that are not in the discovered file set.
C36_AffectedWithinProject ==
    (report.present /\ ScopeOrFiles(Analysed.depGraph) > 0) =>
        /\ report.totalAffectedFiles <= report.totalProjectFiles
        /\ WithinHundred(report.globalImpactPercentage)
        /\ \A i \in DOMAIN report.commitImpacts :
              WithinHundred(report.commitImpacts[i].impactPercentage)

\* the paths handed to groupByModule
GroupFiles == FileUniverse \cup {dCpp, readme, <<"src", "\\", "a", ".cpp">>}

RECURSIVE SumAffected(_)
SumAffected(impacts) ==
    IF impacts = <<>> THEN 0 ELSE Head(impacts).affectedFiles + SumAffected(Tail(impacts))

\* the impacts count every file of S that resolves to a module once, and no other
Partitions(impacts, resolver, S) ==
    /\ SumAffected(impacts) = Cardinality({f \in S : resolveFileModule(resolver, f) # ""})
    /\ SumAffected(impacts) <= Cardinality(S)
    /\ \A i \in DOMAIN impacts :
          /\ impacts[i].affectedFiles = Len(impacts[i].affectedFileList)
          /\ NoDuplicate(impacts[i].affectedFileList)
          /\ Range(impacts[i].affectedFileList) \subseteq S
    /\ \A i, j \in DOMAIN impacts :
          i # j => Range(impacts[i].affectedFileList) \cap Range(impacts[j].affectedFileList) = {}

\* C20: for every set of affected files, the affected-file counts of the
\* module impacts that groupByModule returns add up to the number of affected
\* files that resolve to a module, which never exceeds the number of affected
\* files, and no affected file is listed under more than one module.
C20_ModuleImpactsPartition ==
    /\ \A S \in SUBSET GroupFiles :
          Partitions(groupByModule(Analysed.moduleResolver, SeqOf(S)),
                     Analysed.moduleResolver, S)
    /\ report.present =>
          Partitions(report.moduleImpacts, Analysed.moduleResolver,
                     Range(report.allRebuildFiles))

\* C20 witness: the rebuild files fall into two modules; one of them is listed
\* by both module descriptors and one belongs to no module.
C20_Witness ==
    /\ report.present
    /\ Len(report.moduleImpacts) = 2
    /\ \E f \in Range(report.allRebuildFiles) :
          \A i \in DOMAIN Analysed.moduleResolver.modules :
              f \in Analysed.moduleResolver.modules[i].files
    /\ \E f \in Range(report.allRebuildFiles) :
          resolveFileModule(Analysed.moduleResolver, f) = ""

\* the module that owns path f: the first registered one whose descriptor lists
\* the forward-slash form of f; 0 when no descriptor lists it
Owner(resolver, f) ==
    LET L == {i \in DOMAIN resolver.modules : norm(f) \in resolver.modules[i].files}
    IN IF L = {} THEN 0 ELSE CHOOSE i \in L : \A j \in L : i <= j

\* impacts holds one entry for each module owning a file of S and no other,
\* each with the size of its descriptor's file set, most affected first
OnePerOwner(impacts, resolver, S) ==
    /\ \A i \in DOMAIN resolver.modules :
          Cardinality({k \in DOMAIN impacts :
                          impacts[k].moduleName = resolver.modules[i].name})
             = IF \E f \in S : Owner(resolver, f) = i THEN 1 ELSE 0
    /\ \A k \in DOMAIN impacts :
          \E i \in DOMAIN resolver.modules :
             /\ impacts[k].moduleName = resolver.modules[i].name
             /\ impacts[k].totalFiles = Cardinality(resolver.modules[i].files)
             /\ impacts[k].affectedFiles = Cardinality({f \in S : Owner(resolver, f) = i})
    /\ \A k \in 1..(Len(impacts) - 1) :
          impacts[k].affectedFiles >= impacts[k + 1].affectedFiles

\* C21: for every set of affected files groupByModule returns one ModuleImpact
\* for each module that owns at least one of them and none for any other
\* module, each with totalFiles equal to the size of the file set of that
\* module's descriptor, and the list is ordered by affectedFiles, largest first.
C21_OneImpactPerOwningModule ==
    /\ \A S \in SUBSET GroupFiles :
          OnePerOwner(groupByModule(Analysed.moduleResolver, SeqOf(S)),
                      Analysed.moduleResolver, S)
    /\ report.present =>
          /\ OnePerOwner(report.moduleImpacts, Analysed.moduleResolver,
                         Range(report.allRebuildFiles))
          /\ \A c \in DOMAIN report.commitImpacts :
                OnePerOwner(report.commitImpacts[c].affectedModules, Analysed.moduleResolver,
                            Range(report.commitImpacts[c].rebuildFiles))

\* C21 witness: of two registered modules only one owns a rebuild file, and
\* the report lists that module alone, with the size of its descriptor.
C21_Witness ==
    /\ report.present
    /\ Len(Analysed.moduleResolver.modules) = 2
    /\ Len(report.moduleImpacts) = 1
    /\ report.moduleImpacts[1].totalFiles = 2
    /\ report.moduleImpacts[1].affectedFiles = 1

----------------------------------------------------------------------------
(* Properties of module detection, checked under DetectSpec *)

\* what one strategy yields on its own, for the disk and file set of the call
YieldOf(s) == runStrategy(<<>>, s, call.disk, call.allFiles)

\* the yield of the first of buildscript, CMake and directory that has a module
FirstYield ==
    IF YieldOf("unreal") # <<>> THEN YieldOf("unreal")
    ELSE IF YieldOf("cmake") # <<>> THEN YieldOf("cmake")
    ELSE YieldOf("directory")

\* C22: after a detect call with strategy auto the modules are the pre-built
\* modules when there is at least one, and otherwise exactly the yield of the
\* first of buildscript, CMake and directory that yields a module; after every
\* detect call the modules and the reverse index hold nothing of the call
\* before: they are what the same call leaves on a new resolver.
C22_AutoFirstStrategyWins ==
    call.op = "detect" =>
        /\ call.strategy = "auto" =>
              moduleResolver.modules =
                 IF call.prebuilt # <<>> THEN call.prebuilt ELSE FirstYield
        /\ moduleResolver =
              detect(NoModules, call.strategy, call.prebuilt, call.allFiles, call.disk)
        /\ moduleResolver.fileToModule =
              IF call.strategy = "none" THEN EmptyMap
              ELSE buildReverseIndex(moduleResolver.modules)

\* C22 witness: the call before left the pre-built module; this call, with
\* auto and no pre-built module on a disk where both buildscript and CMake
\* yield modules, leaves the buildscript module alone.
C22_Witness ==
    /\ call.op = "detect"
    /\ call.calls = 2
    /\ call.before.modules # <<>>
    /\ call.before.modules[1].name = "Core"
    /\ call.strategy = "auto"
    /\ call.prebuilt = <<>>
    /\ YieldOf("unreal") # <<>>
    /\ YieldOf("cmake") # <<>>
    /\ Len(moduleResolver.modules) = 1
    /\ moduleResolver.modules[1].type = "unreal"

----------------------------------------------------------------------------
(* Properties of the project file parse, checked under ProjectSpec *)

\* the configured project file has an extension the parser does not support
Unsupported == toLowerCase(extname(call.projectFile)) \notin {".sln", ".vcxproj"}

\* the configured project file is missing or cannot be read
CannotBeRead == ~projectReadable(call.projects, call.projectFile)

\* the configured project file is read and holds no item the parser recognizes
NoItemRecognized ==
    /\ projectReadable(call.projects, call.projectFile)
    /\ call.projects[call.projectFile].items = <<>>

\* C23: when the configured project file has an unsupported extension, cannot
\* be read, or holds no recognized item, the parser returns an empty scope and
\* an empty module map, and the analysis goes on as without a project file: no
\* scope is set, the denominator is the number of discovered files, and the
\* modules are those the configured strategy detects without pre-built modules.
C23_BadProjectFileIgnored ==
    (/\ call.op = "analyze" /\ call.done
     /\ call.projectFile # <<>>
     /\ Unsupported \/ CannotBeRead \/ NoItemRecognized) =>
        /\ call.parsed.projectScope = {}
        /\ call.parsed.modules = <<>>
        /\ ~graph.projectScope.set
        /\ totalFiles(graph) = Len(graph.allFiles)
        /\ moduleResolver =
              detectionOf(NoModules, call.moduleDetection, <<>>, graph.allFiles, call.disk)

\* the projects that the solution references and that exist on disk
ParsedProjects ==
    {p \in {coreA, coreB, utilLib} :
        /\ call.projects[p].exists
        /\ \E i \in DOMAIN call.projects[appSln].items :
              norm(call.projects[appSln].items[i]) = p}

\* C24: the parse of a solution that can be read yields the union of the file
\* sets of the referenced projects found on disk as scope and exactly one
\* module per such project, holding the file set of that project; so the
\* module file sets add up to the scope and there are as many modules as
\* parsed projects.
C24_OneModulePerProject ==
    (/\ call.op = "analyze" /\ call.done
     /\ toLowerCase(extname(call.projectFile)) = ".sln"
     /\ projectReadable(call.projects, call.projectFile)) =>
        /\ call.parsed.projectScope =
              UNION {parseVcxproj(call.projects, p) : p \in ParsedProjects}
        /\ Len(call.parsed.modules) = Cardinality(ParsedProjects)
        /\ \A p \in ParsedProjects :
              Cardinality({i \in DOMAIN call.parsed.modules :
                              /\ call.parsed.modules[i].path = dirname(p)
                              /\ call.parsed.modules[i].files = parseVcxproj(call.projects, p)})
                 = 1
        /\ UNION {call.parsed.modules[i].files : i \in DOMAIN call.parsed.modules}
              = call.parsed.projectScope

----------------------------------------------------------------------------
(* Properties of calculatePercentage, checked under PercentSpec *)

\* C25: for a >= 0 and t > 0, calculatePercentage(a, t) is 1000 * a / t rounded
\* to the nearest integer, a half rounded up, divided by 10 (the results are
\* kept in tenths), and calculatePercentage(a, 0) is 0; for 0 <= a <= t the
\* result lies between 0 and 100 and does not decrease when a grows.
C25_PercentageRounding ==
    (call.op = "calculatePercentage" /\ call.done) =>
        /\ IsPercentage(call.result, call.affectedCount, call.totalCount)
        /\ call.affectedCount <= call.totalCount =>
              /\ 0 <= call.result /\ call.result <= 1000
              /\ \A b \in PercentCounts :
                    b <= call.affectedCount =>
                       calculatePercentage(b, call.totalCount) <= call.result

----------------------------------------------------------------------------
(* Properties of toCommitInfo, checked under CommitSpec *)

\* C26: for every raw commit, the short id that toCommitInfo produces is
\* exactly 8 characters long and is the first 8 characters of the full id, and
\* the full id, the message, the author, the date and the list of changed
\* files are copied unchanged.
C26_ShortIdAndCopies ==
    (call.op = "toCommitInfo" /\ call.done) =>
        /\ Len(call.commitInfo.hash) = 8
        /\ \A i \in 1..8 : call.commitInfo.hash[i] = call.rawCommit.hash[i]
        /\ call.commitInfo.fullHash = call.rawCommit.hash
        /\ call.commitInfo.message = call.rawCommit.message
        /\ call.commitInfo.author = call.rawCommit.author
        /\ call.commitInfo.date = call.rawCommit.date
        /\ call.commitInfo.affectedFiles = call.files

\* a commit with changed files and an id longer than its short id was converted
C26_Witness ==
    /\ call.op = "toCommitInfo" /\ call.done
    /\ Len(call.rawCommit.hash) > 8
    /\ call.commitInfo.hash # call.rawCommit.hash
    /\ Len(call.files) > 1
    /\ call.rawCommit.message # <<>>

----------------------------------------------------------------------------
(* Invariants of the graph's collections, checked under GraphSpec *)

\* C28: in every state reached by loadCache, build and changes of the
\* workspace (removals and per-file I/O failures included), for every file f of
\* the file set and every path i of f's recorded resolved includes,
\* reverseDeps[i] contains f.
C28_IncludesHaveReverseEdges ==
    \A f \in Range(graph.allFiles) :
        \A i \in Range(Get(graph.fileIncludes, f, <<>>)) :
            f \in Get(graph.reverseDeps, i, {})

\* C29: in every state reached by loadCache, build and changes of the
\* workspace, every key of reverseDeps is a member of the file set.
C29_ReverseKeysAreFiles ==
    DOMAIN graph.reverseDeps \subseteq Range(graph.allFiles)

\* C30: in every state reached by loadCache and build, for every file f of the
\* file set the filename index entry of f's lowercased basename contains f.
C30_FilesAreIndexed ==
    \A f \in Range(graph.allFiles) :
        Has(Get(graph.fileIndex, lowerAll(basename(f)), <<>>), f)

\* a warm build ran on a loaded cache after a change of the workspace and left
\* files in the file set
C30_Witness ==
    /\ lastBuild.done /\ lastBuild.from = "loaded" /\ lastBuild.delta # {}
    /\ origin = "built"
    /\ Len(graph.allFiles) > 1

\* the number of times path p is listed in the filename index of g
Listings(g, p) ==
    Cardinality({i \in DOMAIN Get(g.fileIndex, lowerAll(basename(p)), <<>>) :
                    Get(g.fileIndex, lowerAll(basename(p)), <<>>)[i] = p})

\* C39: after every build (cold, repeated on the same graph, or warm after
\* loadCache) the filename index lists each file of the file set exactly once
\* under its lowercased basename and lists no path outside the file set.
C39_IndexListsFileSetOnce ==
    origin = "built" =>
        /\ \A f \in Range(graph.allFiles) : Listings(graph, f) = 1
        /\ \A k \in DOMAIN graph.fileIndex :
              Range(graph.fileIndex[k]) \subseteq Range(graph.allFiles)

----------------------------------------------------------------------------
(* Properties of include resolution, checked under GraphSpec *)

\* the resolution order, stated on its own: the target at the including file's
\* directory, the target at the root, the first candidate of the filename index
\* that ends with the include string, the only file of that basename; <<>> when
\* the include is dropped
ResolutionOrder(g, fsys, target, fromDir) ==
    LET candidates == Get(g.fileIndex, lowerAll(basename(target)), <<>>)
        matching == {i \in DOMAIN candidates : endsWith(candidates[i], norm(target))}
    IN IF isFile(fsys, join(fromDir, target)) \/ join(fromDir, target) \in Dirs \cup OtherFiles
       THEN norm(join(fromDir, target))
       ELSE IF isFile(fsys, target) \/ target \in Dirs \cup OtherFiles
       THEN norm(target)
       ELSE IF matching # {}
       THEN candidates[CHOOSE i \in matching : \A j \in matching : i <= j]
       ELSE IF Cardinality(Range(candidates)) = 1
       THEN CHOOSE p \in Range(candidates) : TRUE
       ELSE <<>>

\* the includes of f, each resolved in that order, the dropped ones left out
ResolvedInOrder(g, fsys, f) ==
    SelectSeq([i \in DOMAIN fsys[f].content |->
                  ResolutionOrder(g, fsys, fsys[f].content[i], dirname(f))],
              LAMBDA r : r # <<>>)

\* the files that the last build parsed and could read
ParsedNow == {f \in Range(lastBuild.filesToParse) : statOk(fs, f) /\ readOk(fs, f)}

\* every include of the files just parsed is recorded as the order resolves it
ResolvedAsOrdered ==
    \A f \in ParsedNow : Get(graph.fileIncludes, f, <<>>) = ResolvedInOrder(graph, fs, f)

\* every include of the files just parsed is recorded as a cold build records it
ResolvedAsCold ==
    \A f \in ParsedNow :
        Get(graph.fileIncludes, f, <<>>) = Get(ColdGraph(fs, opts).fileIncludes, f, <<>>)

\* C31: each quoted include of a parsed file resolves to the first match of: the
\* target at the including file's directory, the target at the workspace root,
\* the first filename-index candidate ending with the include string, the sole
\* file sharing the target's lowercased basename, and is dropped otherwise; and
\* the same include in the same filesystem resolves the same in a cold build, a
\* repeated build and a warm build after loadCache.
C31_IncludeResolution ==
    (Fresh /\ lastBuild.done) => (ResolvedAsOrdered /\ ResolvedAsCold)

\* the path components of p from some directory boundary on are those of target
TrailingComponents(p, target) ==
    /\ endsWith(p, norm(target))
    /\ (Len(p) = Len(target) \/ p[Len(p) - Len(target)] = "/")

\* the include is found neither at the including file's directory nor at the root
ByFuzzyStep ==
    /\ ~existsSync(FooDisk(Range(call.listed)), join(call.fromDir, call.includePath))
    /\ ~existsSync(FooDisk(Range(call.listed)), call.includePath)

\* C32: when an include written as "Module/Foo.h" is resolved by the fuzzy step
\* and the file set holds a file whose trailing path components are
\* Module/Foo.h, the include resolves to such a file, never to a Foo.h whose
\* directory components differ.
C32_SuffixMatchIsByComponents ==
    (/\ call.op = "resolveInclude" /\ call.done
     /\ Len(call.includePath) > 2
     /\ ByFuzzyStep
     /\ \E f \in Range(call.listed) : TrailingComponents(f, call.includePath))
        => TrailingComponents(call.resolved, call.includePath)

----------------------------------------------------------------------------
(* Properties of the cache round trip, checked under GraphSpec *)

\* a fresh graph for the same root that loaded toCache(g), with the scope of g
Restored(g) ==
    [loadCache(NewGraph, cacheManagerLoad(toCache(g), RootPath))
       EXCEPT !.projectScope = g.projectScope]

\* the file set and the per-file mtimes and resolved includes of r are those of g
SameFiles(r, g) ==
    /\ Range(r.allFiles) = Range(g.allFiles)
    /\ \A f \in Range(g.allFiles) :
          /\ Get(r.fileMtimes, f, 0) = Get(g.fileMtimes, f, 0)
          /\ Get(r.fileIncludes, f, <<>>) = Get(g.fileIncludes, f, <<>>)

\* r has the edge i -> f exactly when i is among the cached includes of f
EdgesFromIncludes(r, cache) ==
    \A i \in FileUniverse \cup OtherFiles \cup DOMAIN r.reverseDeps :
        Get(r.reverseDeps, i, {}) =
            {cache.files[k].path : k \in {n \in DOMAIN cache.files :
                                             i \in Range(cache.files[n].includes)}}

\* r answers every getAffectedFiles and getDependentCount query as g does
SameAnswers(r, g) ==
    /\ AnswersAs(r, g)
    /\ \A p \in FileUniverse \cup OtherFiles :
          getDependentCount(r, p) = getDependentCount(g, p)

\* C33: for every graph g that build produced, loading toCache(g) into a fresh
\* graph for the same root restores the file set, the per-file mtimes and
\* resolved includes, and reverse edges i -> f exactly for the cached includes i
\* of f; with the same scope the restored graph answers every getAffectedFiles
\* and getDependentCount query as g does.
C33_CacheRoundTrip ==
    origin = "built" =>
        /\ SameFiles(Restored(graph), graph)
        /\ EdgesFromIncludes(Restored(graph), toCache(graph))
        /\ SameAnswers(Restored(graph), graph)

----------------------------------------------------------------------------
(* Properties of the reverse index, checked under DetectSpec *)

\* the paths that are asked for: the files of the workspace, one of them written
\* with a backslash, and a file of no module
AskedFiles == FileUniverse \cup {dCpp, <<"src", "\\", "a", ".cpp">>}

\* the modules whose file set holds f
ModulesOf(resolver, f) ==
    {i \in DOMAIN resolver.modules : norm(f) \in resolver.modules[i].files}

\* C34: after detect every file that belongs to at least one module maps to one
\* module name, that of the first module in registration order whose file set
\* holds it, and a file of no module maps to none; before any detect call every
\* file maps to none and the module map is empty.
C34_FirstRegisteredModuleWins ==
    /\ call.op = "detect" =>
          \A f \in AskedFiles :
              resolveFileModule(moduleResolver, f) =
                 IF Owner(moduleResolver, f) = 0 THEN ""
                 ELSE moduleResolver.modules[Owner(moduleResolver, f)].name
    /\ call = NoCall =>
          /\ moduleResolver.modules = <<>>
          /\ \A f \in AskedFiles : resolveFileModule(moduleResolver, f) = ""

\* detect registered two modules that hold the same file, and left a file
\* without module
C34_Witness ==
    /\ call.op = "detect"
    /\ \E f \in AskedFiles : Cardinality(ModulesOf(moduleResolver, f)) > 1
    /\ \E f \in AskedFiles : ModulesOf(moduleResolver, f) = {}

\* the forward-slash paths handed to groupByModule
NormalizedFiles == {f \in AskedFiles \cup {readme} : norm(f) = f}

\* every impact lists files of the descriptor of its module only, and no more
\* of them than the descriptor holds
WithinDescriptor(impacts, resolver) ==
    \A k \in DOMAIN impacts :
        \E i \in DOMAIN resolver.modules :
            /\ resolver.modules[i].name = impacts[k].moduleName
            /\ Range(impacts[k].affectedFileList) \subseteq resolver.modules[i].files
            /\ impacts[k].affectedFiles = Len(impacts[k].affectedFileList)
            /\ impacts[k].totalFiles = Cardinality(resolver.modules[i].files)
            /\ impacts[k].affectedFiles <= impacts[k].totalFiles

\* C38: for every ModuleImpact that groupByModule returns for a set of distinct
\* normalized paths, every path of the affected file list is in the file set
\* of the descriptor of that module, and so the count of affected files is at
\* most the total of the module.
C38_AffectedFilesAreModuleFiles ==
    call.op = "detect" =>
        \A S \in SUBSET NormalizedFiles :
            WithinDescriptor(groupByModule(moduleResolver, SeqOf(S)), moduleResolver)

\* detect registered two modules, and the paths asked for fill the file set of
\* one, fall partly into the other and partly into none
C38_Witness ==
    /\ call.op = "detect"
    /\ Len(moduleResolver.modules) = 2
    /\ Len(groupByModule(moduleResolver, SeqOf(NormalizedFiles))) = 2
    /\ \E k \in 1..2 :
          groupByModule(moduleResolver, SeqOf(NormalizedFiles))[k].affectedFiles
             = groupByModule(moduleResolver, SeqOf(NormalizedFiles))[k].totalFiles
    /\ \E f \in NormalizedFiles : resolveFileModule(moduleResolver, f) = ""

----------------------------------------------------------------------------
(* Properties of build under I/O failures, checked under FailureSpec *)

\* the paths on which an operation fails
Failing(fsys) == {p \in DOMAIN fsys : fsys[p].io # "ok"}

\* the workspace without the failures
Healthy(fsys) == [f \in FileUniverse |-> [fsys[f] EXCEPT !.io = "ok"]]

\* the directories on the way from the root to f can be canonicalized and read
InReadableDirs(fsys, f) ==
    \A d \in Dirs :
        (d = <<>> \/ under(f, d)) => (realpathOk(fsys, d) /\ readdirOk(fsys, d))

\* f is on disk, in directories that could be read
Listed(fsys, f) == isFile(fsys, f) /\ InReadableDirs(fsys, f)

\* every listed file is in the file set of g
ListedFilesKept(fsys, g) ==
    \A f \in FileUniverse : Listed(fsys, f) => Has(g.allFiles, f)

\* the resolved includes of every listed file that could be read are those of ref
IncludesAsIn(fsys, g, ref) ==
    \A f \in FileUniverse :
        (Listed(fsys, f) /\ statOk(fsys, f) /\ readOk(fsys, f)) =>
            Get(g.fileIncludes, f, <<>>) = Get(ref.fileIncludes, f, <<>>)

\* C27: when canonicalizing or reading one directory, or stat-ing or reading
\* one file, fails during build, build still completes, every file of the
\* directories that could be read is in the file set, and the resolved includes
\* of every file that could be read are recorded as by a build without the
\* failure.
C27_BuildSurvivesOneFailure ==
    [][(builds' = builds + 1 /\ Cardinality(Failing(fs)) = 1) =>
          /\ graph'.built
          /\ ListedFilesKept(fs, graph')
          /\ IncludesAsIn(fs, graph', build(graph, Healthy(fs), opts).graph)]_vars

----------------------------------------------------------------------------
(* Properties of the analysis command, checked under RunSpec and FairRunSpec *)

\* the call of r is between the acquisition of the flag and its release
InRun(r) == pc[r] \notin {"idle", "rejected"}

Running == {r \in Requests : InRun(r)}

\* this step is the return of a call of r that found the flag set
Rejects(r) == pc[r] = "idle" /\ pc'[r] = "rejected"

\* C8: whatever the interleaving of the requests, at most one analysis body is
\* executing at any time; a request that arrives while the flag is set is
\* rejected, runs no pipeline phase, and leaves the flag, the cache store, the
\* report, the loading state and the running analysis as they are.
C8_OneAnalysisAtATime ==
    /\ [](Cardinality(Running) <= 1)
    /\ [][\A r \in Requests :
            /\ (pc[r] = "idle" /\ analysisRunning /\ pc'[r] # "idle") => Rejects(r)
            /\ Rejects(r) =>
                  /\ UNCHANGED <<analysisRunning, store, report, loading, run, phaseLog>>
                  /\ \A q \in Requests \ {r} : pc'[q] = pc[q]
            /\ pc[r] = "rejected" => pc'[r] \in {"rejected", "idle"}]_vars

\* C8 witness: a request stands rejected while the analysis of another parses.
C8_Witness ==
    /\ pc["refresh"] = "rejected"
    /\ pc["autoScan"] = "rejected"
    /\ pc["analyze"] = "parse"
    /\ analysisRunning

\* C9: the flag is set exactly while one accepted call is between acquire and
\* release; every accepted call eventually releases it, however it leaves the
\* pipeline; and a request made while no call is running is accepted.
C9_FlagReleased ==
    /\ [](analysisRunning <=> Cardinality(Running) = 1)
    /\ analysisRunning ~> ~analysisRunning
    /\ [][\A r \in Requests :
            (pc[r] = "idle" /\ Running = {} /\ pc'[r] # "idle") => pc'[r] = "inner"]_vars

\* C9 witness: the flag is released after an analysis that raised an error.
C9_Witness ==
    /\ outcome = "error"
    /\ Running = {}
    /\ ~analysisRunning
    /\ ~loading

\* the await of r at p settles in this step
Settles(r, p) == pc[r] = p /\ pc'[r] # p

\* C12: when persisting the cache fails after build, analyze does not raise:
\* it goes on to the commits with the graph and the locals it had, as it does
\* when the save succeeds, and the report it returns is made of those locals
\* and of what git reports, whatever became of the cache store.
C12_SaveFailureNotFatal ==
    [][\A r \in Requests :
         /\ Settles(r, "save") =>
               /\ pc'[r] = "commits"
               /\ run'[r] = run[r]
               /\ outcome' = outcome
               /\ store' \in {store, toCache(run[r].depGraph)}
         /\ Settles(r, "commits") =>
               /\ pc'[r] = "modules"
               /\ run'[r] = [run[r] EXCEPT !.rawCommits = run'[r].rawCommits]
         /\ Settles(r, "modules") => run'[r] = run[r]
         /\ (pc[r] = "query" /\ run'[r] # run[r]) =>
               /\ run'[r].depGraph = run[r].depGraph
               /\ run'[r].allRebuildFiles \in
                     {run[r].allRebuildFiles \cup rebuildFiles(run[r].depGraph, files) :
                         files \in {<<>>, getCommitFiles(Head(run[r].rawCommits))}}
         /\ Settles(r, "publish") =>
               /\ outcome' = "report"
               /\ report' = [present |-> TRUE, commits |-> run[r].commitImpacts,
                             allRebuildFiles |-> run[r].allRebuildFiles]]_vars

\* C12 witness: a report with the rebuild files of two commits is published
\* while the cache store is still empty, every save having failed.
C12_Witness ==
    /\ outcome = "report"
    /\ report.present
    /\ report.commits = 2
    /\ report.allRebuildFiles # {}
    /\ ~store.present

\* the phases of the claimed order, and their place in it
PhaseRank ==
    [ph \in {"scopeParse", "warmLoad", "directoryScan", "mtimeDiff", "includeParse",
             "commitEnumeration", "closureQuery"} |->
        CASE ph = "scopeParse"        -> 1
          [] ph = "warmLoad"          -> 2
          [] ph = "directoryScan"     -> 3
          [] ph = "mtimeDiff"         -> 4
          [] ph = "includeParse"      -> 5
          [] ph = "commitEnumeration" -> 6
          [] ph = "closureQuery"      -> 7]

\* the events of a log that belong to the phases of the claimed order
Claimed(log) == SelectSeq(log, LAMBDA e : e[1] \in DOMAIN PhaseRank)

\* every phase of L ends before the next one begins
Bracketed(L) ==
    \A i \in DOMAIN L :
        IF i % 2 = 1
        THEN L[i][2] = "begin"
        ELSE L[i] = <<L[i - 1][1], "end">>

\* the phases of L come in the claimed order, the closure query alone repeating
Ordered(L) ==
    \A i, j \in DOMAIN L :
        i + 1 < j =>
            \/ PhaseRank[L[i][1]] < PhaseRank[L[j][1]]
            \/ L[i][1] = "closureQuery" /\ L[j][1] = "closureQuery"

\* event e of L comes after event d
Preceded(L, e, d) ==
    \A j \in DOMAIN L : L[j] = e => \E i \in 1..(j - 1) : L[i] = d

\* C10: within one analysis the phases come in the order scope parse, cache
\* warm-load, directory scan, mtime diff, include parse, commit enumeration,
\* per-commit closure query, each ending before the next begins; no include is
\* parsed before the directory scan has ended and no closure is queried before
\* build has ended.
C10_PhaseOrder ==
    \A r \in Requests :
        /\ Bracketed(Claimed(phaseLog[r]))
        /\ Ordered(Claimed(phaseLog[r]))
        /\ Preceded(phaseLog[r], <<"includeParse", "begin">>, <<"directoryScan", "end">>)
        /\ Preceded(phaseLog[r], <<"closureQuery", "begin">>, <<"includeParse", "end">>)

\* C10 witness: an analysis went through all seven phases and queried two commits.
C10_Witness ==
    /\ pc["analyze"] = "publish"
    /\ run["analyze"].commitImpacts = 2
    /\ Claimed(phaseLog["analyze"]) =
          << <<"scopeParse", "begin">>, <<"scopeParse", "end">>,
             <<"warmLoad", "begin">>, <<"warmLoad", "end">>,
             <<"directoryScan", "begin">>, <<"directoryScan", "end">>,
             <<"mtimeDiff", "begin">>, <<"mtimeDiff", "end">>,
             <<"includeParse", "begin">>, <<"includeParse", "end">>,
             <<"commitEnumeration", "begin">>, <<"commitEnumeration", "end">>,
             <<"closureQuery", "begin">>, <<"closureQuery", "end">>,
             <<"closureQuery", "begin">>, <<"closureQuery", "end">> >>

\* the places of event e in log L
Places(L, e) == {i \in DOMAIN L : L[i] = e}

\* the calls of the cache manager that the analysis of r has made
Accesses(r) == SelectSeq(phaseLog[r], LAMBDA e : e[1] = "cacheStore")

\* no event d of L comes before an event e
NotAfter(L, e, d) == \A j \in Places(L, e) : \A i \in Places(L, d) : j < i

\* the analysis of r left the pipeline without a report
LeftEarly(r) ==
    pc[r] = "finally" /\ outcome \in {"noWorkspace", "noRemote", "cancelled", "error"}

\* C35: in every accepted analysis the cache store is read at most once, before
\* build starts, and written at most once, only after build completed without
\* error and before the commits are enumerated; an analysis whose build raises,
\* or that returns before the build, writes nothing; and whatever the
\* interleaving of the requests, the store accesses of two analyses never
\* interleave.
C35_StoreAccesses ==
    /\ [](\A r \in Requests :
            /\ Cardinality(Places(phaseLog[r], <<"cacheStore", "load">>)) <= 1
            /\ Cardinality(Places(phaseLog[r], <<"cacheStore", "save">>)) <= 1
            /\ NotAfter(phaseLog[r], <<"cacheStore", "load">>, <<"directoryScan", "begin">>)
            /\ Preceded(phaseLog[r], <<"cacheStore", "save">>, <<"includeParse", "end">>)
            /\ NotAfter(phaseLog[r], <<"cacheStore", "save">>, <<"commitEnumeration", "begin">>)
            /\ LeftEarly(r) => Places(phaseLog[r], <<"cacheStore", "save">>) = {})
    /\ [](Cardinality({r \in Requests : Accesses(r) # <<>>}) <= 1)
    /\ [][\A r \in Requests :
            /\ Accesses(r)' # Accesses(r) =>
                  /\ InRun(r)
                  /\ \A q \in Requests \ {r} : Accesses(q) = <<>> /\ Accesses(q)' = <<>>
            /\ (store' # store /\ pc'[r] # pc[r]) =>
                  /\ pc[r] = "save"
                  /\ Accesses(r)' = Append(Accesses(r), <<"cacheStore", "save">>)]_vars

\* C35 witness: an analysis that read the store once and wrote it once is at the
\* enumeration of the commits, while another request stands rejected.
C35_Witness ==
    /\ pc["refresh"] = "commits"
    /\ pc["analyze"] = "rejected"
    /\ Accesses("refresh") = << <<"cacheStore", "load">>, <<"cacheStore", "save">> >>
    /\ store.present

\* this step is the one in which the call of r leaves runAnalysisInner
Leaves(r) == InRun(r) /\ pc[r] # "finally" /\ pc'[r] = "finally"

\* C37: whenever an accepted analysis finishes, on every path (a report, no
\* remote branch, a dismissed pick, an error raised by any phase), the loading
\* flag of the tree view is false afterwards; a loading state set by a progress
\* message never outlives the analysis that set it.
C37_LoadingCleared ==
    /\ [](\A r \in Requests : pc[r] = "finally" => ~loading)
    /\ [](Running = {} => ~loading)
    /\ [][\A r \in Requests :
            /\ Leaves(r) =>
                  /\ ~loading'
                  /\ outcome' \in {"report", "noRemote", "cancelled", "error", "noWorkspace"}
            /\ (~loading /\ loading') => \E q \in Requests : InRun(q) /\ InRun(q)']_vars

\* C37 witness: the analysis of refresh had set the loading state with the
\* progress messages of build, build raised, and the call is at its finally
\* block with the loading state cleared.
C37_Witness ==
    /\ pc["refresh"] = "finally"
    /\ outcome = "error"
    /\ <<"includeParse", "begin">> \in Range(phaseLog["refresh"])
    /\ ~loading

====
